---- MODULE Spec2Model ----
(***************************************************************************)
(* The mesh-router backend.  Route store (services/Routes.ts): the leases  *)
(* kept in Redis under routes:{userId}, their TTL, and the activity sorted *)
(* set domains:activity.  Identity registry (services/Domain.ts): the      *)
(* Firestore collection nsl-router.  Cleanup of inactive domains           *)
(* (services/DomainCleanup.ts), the handlers of services/RouterAPI.ts and  *)
(* the private CA of services/CertificateAuthority.ts.                     *)
(* Time is counted in whole seconds.                                       *)
(*                                                                         *)
(* Spec            the functions of Routes.ts, each call one step          *)
(* ValidationSpec  registerRoutes on routes at the limits of validation    *)
(* IpSpec          registerRoutes on ip values of several kinds            *)
(* RegistrySpec    Domain.ts, registerRoutes and runCleanup over days      *)
(* ApiSpec         POST /domain, DELETE /domain, POST /routes and          *)
(*                 checkDomainAvailability                                 *)
(* StepSpec        registerRoutes in its two steps                         *)
(* ReleaseSpec     the registry with heartbeats and a reserved label       *)
(* FaultSpec       runCleanup while calls to the stores reject             *)
(* SignedSpec      the endpoints that take a signature, and GET /verify    *)
(* ResolveSpec     GET /resolve/v2                                         *)
(* StatusSpec      checkOnlineStatus and GET /status around the threshold  *)
(* CertSpec        signCSR and POST /cert (services/CertificateAuthority)  *)
(* CaSpec          start-up: initializeCA over restarts and CA files kept, *)
(*                 deleted or damaged, GET /ca-cert and POST /cert         *)
(* RaceSpec        two calls of registerRoutes in flight, await by await   *)
(* UpsertSpec      two calls of updateUserDomain in flight, await by await *)
(* PassSpec        runCleanup await by await among upserts, registrations  *)
(*                 and rejecting calls, with the audit log                 *)
(* LeaseSpec       the leases of two users: registerRoutes, deleteRoutes   *)
(***************************************************************************)
EXTENDS Integers, Sequences, FiniteSets, TLC

\* ------------------------------------------------------------------ bounds

\* longest batch of routes handed to registerRoutes
MaxBatch == 2
\* the clock stops advancing here
MaxTime == 2
\* the value of the ROUTES_TTL_SECONDS environment variable (0: not set)
RoutesTtlSeconds == 2

\* ------------------------------------------------------------------ values

\* the value read from a field an object does not have (JavaScript undefined)
Undef == "undefined"
\* null, and a value that is not null: what redis.get and getRoutes answer
Null == <<>>
Some(v) == <<v>>
ValueOf(x) == x[1]
\* the score of a user that is not a member of the activity sorted set
NoScore == -1

Users == {"u1"}
\* user ids a caller may pass: the empty string is the falsy userId
UserIds == Users \cup {""}

Sources == {"agent", "tunnel"}

\* A route is a record holding the fields the object has: an absent field is
\* absent from the record's domain, as in the JSON the store keeps.
Has(route, field) == field \in DOMAIN route

\* well-formed routes: both sources on one ip and port, the same route naming
\* the default scheme, and a second ip
ValidRoutes ==
  [ip : {"1.1.1.1"}, port : {443}, priority : {1}, source : Sources]
    \cup [ip : {"1.1.1.1"}, port : {443}, priority : {1}, scheme : {"https"},
          source : {"agent"}]
    \cup [ip : {"2.2.2.2"}, port : {443}, priority : {1}, source : {"agent"}]

\* a route object without a source field
SourcelessRoutes == [ip : {"1.1.1.1"}, port : {443}, priority : {1}]

Routes == ValidRoutes \cup SourcelessRoutes

Batches == UNION {[1..n -> Routes] : n \in 0..MaxBatch}

\* the calls of registerRoutes: every batch for a user, one call without a user id
RegisterCalls == (Users \X Batches) \cup {<<"", <<>>>>}

\* ------------------------------------------------------------------ configuration

DEFAULT_ROUTES_TTL_SECONDS == 600

\* the environment variable is ignored
getRoutesTtlDefaultOnly == DEFAULT_ROUTES_TTL_SECONDS

getRoutesTtl ==
  IF RoutesTtlSeconds > 0 THEN RoutesTtlSeconds ELSE DEFAULT_ROUTES_TTL_SECONDS

\* the empty text ''
EmptyText == <<>>

\* the two CA files, none of them on disk
NoFiles == [caCertPath |-> Null, caKeyPath |-> Null]

\* no call is in flight
NoTasks == <<>>

\* ------------------------------------------------------------------ state

VARIABLES
  now,           \* the clock, in seconds
  store,         \* Redis string keys: key -> Null or Some([value, expireAt])
  activity,      \* the sorted set domains:activity: userId -> score
  registeredAt,  \* history: user, source -> time of the last successful register
  last,          \* history: the last completed call and its outcome
  docs,          \* the Firestore collection nsl-router: userId -> Null or Some(document)
  pending,       \* the registerRoutes call that has written its routes and not yet
                 \* its activity entry: Null or Some([userId, routes, time])
  http,          \* history: the last HTTP request and the response it got
  caCert,        \* the parsed certificate of the CA: Null before it is loaded
  caKey,         \* the parsed private key of the CA: Null before it is loaded
  caCertPem,     \* the text of the CA certificate file as read: empty before
  files,         \* the CA files on disk: path -> Null or Some(text)
  startup,       \* the position of the listen callback: "listening" before it
                 \* ran, "serving" once routerAPI mounted the handlers,
                 \* "crashed" when initializeCA threw
  log,           \* history: the lines the last call appended to the domain
                 \* audit log, oldest first
  tasks          \* the calls in flight, for the calls taken await by await:
                 \* task -> its position pc and what it has read so far

\* the module state of CertificateAuthority.ts and the files behind it
caVars == <<caCert, caKey, caCertPem, files>>

vars == <<now, store, activity, registeredAt, last, docs, pending, http,
          caCert, caKey, caCertPem, files, startup, log, tasks>>

\* ------------------------------------------------------------------ Routes.ts

\* every user has the same key
getRoutesKeyShared(userId) == <<"routes", "">>

getRoutesKey(userId) == <<"routes", userId>>

RouteKeys == {getRoutesKey(u) : u \in Users}

\* route.source, undefined when the route has none
SourceOf(route) == IF Has(route, "source") THEN route.source ELSE Undef

getRouteKey(route) ==
  LET scheme == IF Has(route, "scheme") /\ route.scheme # "" THEN route.scheme ELSE "https"
      type   == IF Has(route, "type") /\ route.type # "" THEN route.type ELSE "ip"
      domain == IF Has(route, "domain") THEN route.domain ELSE ""
  IN  <<route.ip, route.port, scheme, type, domain>>

\* the port has no upper limit
RouteErrorNoUpperLimit(route) ==
  IF ~Has(route, "ip") \/ route.ip = "" THEN "Route IP is required."
  ELSE IF ~Has(route, "port") \/ route.port = 0 \/ route.port < 1
    THEN "Route port must be between 1 and 65535."
  ELSE IF ~Has(route, "priority") THEN "Route priority is required."
  ELSE "ok"

\* the checks of the validation loop on one route
RouteError(route) ==
  IF ~Has(route, "ip") \/ route.ip = "" THEN "Route IP is required."
  ELSE IF ~Has(route, "port") \/ route.port = 0 \/ route.port < 1 \/ route.port > 65535
    THEN "Route port must be between 1 and 65535."
  ELSE IF ~Has(route, "priority") THEN "Route priority is required."
  ELSE "ok"

\* the error of the first route that fails, in batch order
RECURSIVE ValidateRoutes(_)
ValidateRoutes(routes) ==
  IF routes = <<>> THEN "ok"
  ELSE IF RouteError(Head(routes)) # "ok" THEN RouteError(Head(routes))
  ELSE ValidateRoutes(Tail(routes))

\* what registerRoutes throws before it touches Redis
RegisterError(userId, routes) ==
  IF userId = "" THEN "User ID is required."
  ELSE IF Len(routes) = 0 THEN "At least one route is required."
  ELSE ValidateRoutes(routes)

\* ------------------------------------------------------------------ Redis

RedisGet(st, key) == IF st[key] = Null THEN Null ELSE Some(ValueOf(st[key]).value)

RedisSetex(st, key, seconds, value) ==
  [st EXCEPT ![key] = Some([value |-> value, expireAt |-> now + seconds])]

RedisDel(st, key) == [st EXCEPT ![key] = Null]

RedisTtl(st, key) == IF st[key] = Null THEN -2 ELSE ValueOf(st[key]).expireAt - now

\* keys whose time has come are gone
RedisExpire(st, time) ==
  [k \in DOMAIN st |->
     IF st[k] # Null /\ ValueOf(st[k]).expireAt <= time THEN Null ELSE st[k]]

\* the least number of a set that is not empty
MinOfSet(S) == CHOOSE x \in S : \A y \in S : x <= y

\* ------------------------------------------------------------------ Map

\* a JavaScript Map as a sequence of <<key, value>> in insertion order
MapHas(m, k) == \E i \in 1..Len(m) : m[i][1] = k

MapSet(m, k, v) ==
  IF MapHas(m, k)
    THEN [i \in 1..Len(m) |-> IF m[i][1] = k THEN <<k, v>> ELSE m[i]]
    ELSE Append(m, <<k, v>>)

MapValues(m) == [i \in 1..Len(m) |-> m[i][2]]

RECURSIVE SetAll(_, _)
SetAll(m, routes) ==
  IF routes = <<>> THEN m
  ELSE SetAll(MapSet(m, getRouteKey(Head(routes)), Head(routes)), Tail(routes))

IncomingSources(routes) == {SourceOf(routes[i]) : i \in 1..Len(routes)}

\* nothing is filtered: routes are merged by key alone
FilterExistingNone(existingRoutes, incomingSources) == existingRoutes

FilterExisting(existingRoutes, incomingSources) ==
  SelectSeq(existingRoutes, LAMBDA r : SourceOf(r) \notin incomingSources)

MergeRoutes(existingRoutes, routes) ==
  MapValues(SetAll(SetAll(<<>>, FilterExisting(existingRoutes, IncomingSources(routes))),
                   routes))

\* ------------------------------------------------------------------ reads

getRoutes(userId) == RedisGet(store, getRoutesKey(userId))

\* a missing key is answered like a key without expiry
getRoutesTTLNoSentinel(userId) ==
  IF store[getRoutesKey(userId)] = Null THEN -1 ELSE RedisTtl(store, getRoutesKey(userId))

getRoutesTTL(userId) == RedisTtl(store, getRoutesKey(userId))

hasRoutes(userId) == store[getRoutesKey(userId)] # Null

\* the routes getRoutes answers, none when it answers null
RoutesOf(userId) ==
  IF getRoutes(userId) = Null THEN <<>> ELSE ValueOf(getRoutes(userId))

\* ------------------------------------------------------------------ operations

\* the record of a completed call: its arguments, what it threw ("ok" when it
\* returned) and the sources of the routes the store held when it was made
Call(op, userId, routes, error, existing) ==
  [op |-> op, userId |-> userId, routes |-> routes, error |-> error,
   had |-> IncomingSources(existing)]

\* the record of an HTTP exchange: the request and the response it got
Exchange(method, path, userid, body, status, answer) ==
  [method |-> method, path |-> path, userid |-> userid, body |-> body,
   status |-> status, answer |-> answer]

\* no request was made yet
NoExchange == Exchange("", "", "", <<>>, 0, <<>>)

Init ==
  /\ now = 0
  /\ store = [k \in RouteKeys |-> Null]
  /\ activity = [u \in Users |-> NoScore]
  /\ registeredAt = [u \in Users |-> [s \in Sources \cup {Undef} |-> NoScore]]
  /\ last = Call("init", "", <<>>, "ok", <<>>)
  /\ docs = [u \in Users |-> Null]
  /\ pending = Null
  /\ http = NoExchange
  /\ caCert = Null
  /\ caKey = Null
  /\ caCertPem = EmptyText
  /\ files = NoFiles
  /\ startup = "serving"
  /\ log = <<>>
  /\ tasks = NoTasks

registerRoutes(userId, routes) ==
  LET error == RegisterError(userId, routes) IN
  IF error # "ok"
    THEN /\ last' = Call("registerRoutes", userId, routes, error, <<>>)
         /\ UNCHANGED <<now, store, activity, registeredAt, docs, pending>>
    ELSE LET key == getRoutesKey(userId)
             existingValue == RedisGet(store, key)
             existingRoutes ==
               IF existingValue = Null THEN <<>> ELSE ValueOf(existingValue)
             mergedRoutes == MergeRoutes(existingRoutes, routes)
         IN  /\ store' = RedisSetex(store, key, getRoutesTtl, mergedRoutes)
             /\ activity' = [activity EXCEPT ![userId] = now]
             /\ registeredAt' =
                  [registeredAt EXCEPT ![userId] =
                     [s \in DOMAIN @ |->
                        IF s \in IncomingSources(routes) THEN now ELSE @[s]]]
             /\ last' = Call("registerRoutes", userId, routes, "ok", existingRoutes)
             /\ UNCHANGED <<now, docs, pending>>

\* deleting fails for a user without routes
deleteRoutesStrict(userId) ==
  /\ IF userId = ""
       THEN /\ last' = Call("deleteRoutes", userId, <<>>, "User ID is required.", <<>>)
            /\ UNCHANGED store
       ELSE IF ~hasRoutes(userId)
         THEN /\ last' = Call("deleteRoutes", userId, <<>>, "No routes.", <<>>)
              /\ UNCHANGED store
         ELSE /\ last' = Call("deleteRoutes", userId, <<>>, "ok", RoutesOf(userId))
              /\ store' = RedisDel(store, getRoutesKey(userId))
  /\ UNCHANGED <<now, activity, registeredAt, docs, pending>>

deleteRoutes(userId) ==
  /\ IF userId = ""
       THEN /\ last' = Call("deleteRoutes", userId, <<>>, "User ID is required.", <<>>)
            /\ UNCHANGED store
       ELSE /\ last' = Call("deleteRoutes", userId, <<>>, "ok", RoutesOf(userId))
            /\ store' = RedisDel(store, getRoutesKey(userId))
  /\ UNCHANGED <<now, activity, registeredAt, docs, pending>>

\* one second passes
Tick ==
  /\ now < MaxTime
  /\ now' = now + 1
  /\ store' = RedisExpire(store, now + 1)
  /\ last' = Call("tick", "", <<>>, "ok", <<>>)
  /\ UNCHANGED <<activity, registeredAt, docs, pending>>

\* the functions of Routes.ts called directly: no HTTP exchange takes place
Next ==
  \/ \E call \in RegisterCalls : registerRoutes(call[1], call[2]) /\ UNCHANGED <<http, caVars, startup, log, tasks>>
  \/ \E userId \in UserIds : deleteRoutes(userId) /\ UNCHANGED <<http, caVars, startup, log, tasks>>
  \/ Tick /\ UNCHANGED <<http, caVars, startup, log, tasks>>

Spec == Init /\ [][Next]_vars

\* ------------------------------------------------------------------ validation

\* Routes at the edges of the validation loop: the ports 1 and 65535, the ports
\* 0 and 65536, a route without ip and a route whose priority is a string.  A
\* record holds priority only when it is a number: the string is kept under
\* priorityText, so that typeof route.priority is "number" exactly when the
\* record has the field priority.
EdgeRoutes ==
  [ip : {"1.1.1.1"}, port : {0, 1, 65535, 65536}, priority : {1}, source : {"agent"}]
    \cup [port : {443}, priority : {1}, source : {"agent"}]
    \cup [ip : {"1.1.1.1"}, port : {443}, priorityText : {"high"}, source : {"agent"}]

EdgeBatches == UNION {[1..n -> EdgeRoutes] : n \in 0..MaxBatch}

ValidationNext ==
  \/ \E userId \in Users, routes \in EdgeBatches :
       registerRoutes(userId, routes) /\ UNCHANGED <<http, caVars, startup, log, tasks>>
  \/ Tick /\ UNCHANGED <<http, caVars, startup, log, tasks>>

ValidationSpec == Init /\ [][ValidationNext]_vars

\* ------------------------------------------------------------------ ip addresses

CharAt(s, i) == SubSeq(s, i, i)

Digits == {"0", "1", "2", "3", "4", "5", "6", "7", "8", "9"}

HexDigits == Digits \cup {"a", "b", "c", "d", "e", "f", "A", "B", "C", "D", "E", "F"}

\* every character of s is one of chars
AllIn(s, chars) == \A i \in 1..Len(s) : CharAt(s, i) \in chars

\* String.prototype.includes
Includes(s, sep) == \E i \in 1..(Len(s) - Len(sep) + 1) : SubSeq(s, i, i + Len(sep) - 1) = sep

\* String.prototype.split with a separator that is not empty
RECURSIVE Split(_, _)
Split(s, sep) ==
  IF Includes(s, sep)
    THEN LET at == CHOOSE i \in 1..(Len(s) - Len(sep) + 1) :
                     /\ SubSeq(s, i, i + Len(sep) - 1) = sep
                     /\ \A j \in 1..(i - 1) : SubSeq(s, j, j + Len(sep) - 1) # sep
         IN  <<SubSeq(s, 1, at - 1)>> \o Split(SubSeq(s, at + Len(sep), Len(s)), sep)
    ELSE <<s>>

\* 25[0-5] | 2[0-4][0-9] | [01]?[0-9][0-9]?
IsOctet(s) ==
  /\ Len(s) \in 1..3
  /\ AllIn(s, Digits)
  /\ Len(s) = 3 =>
       \/ CharAt(s, 1) \in {"0", "1"}
       \/ CharAt(s, 1) = "2" /\ CharAt(s, 2) \in {"0", "1", "2", "3", "4"}
       \/ SubSeq(s, 1, 2) = "25" /\ CharAt(s, 3) \in {"0", "1", "2", "3", "4", "5"}

isValidIPv4(ip) ==
  LET octets == Split(ip, ".")
  IN  Len(octets) = 4 /\ \A i \in 1..4 : IsOctet(octets[i])

\* [0-9a-fA-F]{1,4}
IsHexGroup(group) == Len(group) \in 1..4 /\ AllIn(group, HexDigits)

isValidIPv6(ip) ==
  IF ip = "" \/ ~AllIn(ip, HexDigits \cup {":", "."}) THEN FALSE
  ELSE IF Len(Split(ip, "::")) - 1 > 1 THEN FALSE
  ELSE IF Includes(ip, "::")
    THEN LET parts == Split(ip, "::")
             left  == IF parts[1] # "" THEN Split(parts[1], ":") ELSE <<>>
             right == IF parts[2] # "" THEN Split(parts[2], ":") ELSE <<>>
             allGroups == left \o right
         IN  IF Len(left) + Len(right) > 7 THEN FALSE
             ELSE \A i \in 1..Len(allGroups) :
                    allGroups[i] = "" \/ IsHexGroup(allGroups[i])
    ELSE LET groups == Split(ip, ":")
         IN  IF Len(groups) # 8 THEN FALSE
             ELSE \A i \in 1..8 : IsHexGroup(groups[i])

isValidIpAddress(ip) == isValidIPv4(ip) \/ isValidIPv6(ip)

\* ip values a caller may send: an IPv4 literal, the IPv6 loopback, a literal
\* with two "::" and a host name
IpInputs == {"1.1.1.1", "::1", "1::2::3", "not-an-ip"}

IpRoutes == [ip : IpInputs, port : {443}, priority : {1}, source : {"agent"}]

IpBatches == UNION {[1..n -> IpRoutes] : n \in 0..MaxBatch}

IpNext ==
  \/ \E userId \in Users, routes \in IpBatches :
       registerRoutes(userId, routes) /\ UNCHANGED <<http, caVars, startup, log, tasks>>
  \/ \E userId \in Users : deleteRoutes(userId) /\ UNCHANGED <<http, caVars, startup, log, tasks>>
  \/ Tick /\ UNCHANGED <<http, caVars, startup, log, tasks>>

IpSpec == Init /\ [][IpNext]_vars

\* ------------------------------------------------------------------ Domain.ts

LowerCaseLetters ==
  {"a", "b", "c", "d", "e", "f", "g", "h", "i", "j", "k", "l", "m",
   "n", "o", "p", "q", "r", "s", "t", "u", "v", "w", "x", "y", "z"}

\* names of 63 characters are refused
validateDomainNameShort(domain) ==
  IF domain = "" THEN "Domain name cannot be empty."
  ELSE IF Len(domain) >= 63 THEN "Domain name cannot be longer than 63 characters."
  ELSE IF ~AllIn(domain, LowerCaseLetters \cup Digits)
    THEN "Domain name can only contain lowercase letters and numbers."
  ELSE "ok"

\* the message of the first rule the name breaks, "ok" when it breaks none
validateDomainName(domain) ==
  IF domain = "" THEN "Domain name cannot be empty."
  ELSE IF Len(domain) > 63 THEN "Domain name cannot be longer than 63 characters."
  ELSE IF ~AllIn(domain, LowerCaseLetters \cup Digits)
    THEN "Domain name can only contain lowercase letters and numbers."
  ELSE "ok"

RESERVED_DOMAINS == {"root", "app", "www"}

\* the ids of the documents the query where('domainName', '==', domain) finds
DocsWithDomain(collection, domain) ==
  {u \in DOMAIN collection :
     /\ collection[u] # Null
     /\ Has(ValueOf(collection[u]), "domainName")
     /\ ValueOf(collection[u]).domainName = domain}

\* the first document of the query, null when it finds none (the name is valid)
getDomain(domain) ==
  IF DocsWithDomain(docs, domain) = {} THEN Null
  ELSE LET uid == CHOOSE u \in DocsWithDomain(docs, domain) : TRUE
       IN  Some([uid |-> uid, domain |-> ValueOf(docs[uid])])

\* what getDomain throws before it queries, "ok" when it queries
GetDomainError(domain) ==
  IF domain = "" THEN "Domain name is required for availability check."
  ELSE validateDomainName(domain)

getUserDomain(userId) == docs[userId]

\* a field of a document or of a request body is truthy: present and not ""
Truthy(object, field) == Has(object, field) /\ object[field] # ""

\* the owner of the name is not looked up
UpdateUserDomainErrorNoOwner(userId, domainData) ==
  IF Truthy(domainData, "domainName") /\ validateDomainName(domainData.domainName) # "ok"
    THEN validateDomainName(domainData.domainName)
  ELSE IF DOMAIN domainData = {} THEN "No valid data provided for update"
  ELSE "ok"

\* what updateUserDomain throws before it writes
UpdateUserDomainError(userId, domainData) ==
  LET domainName == domainData.domainName
      nameError ==
        IF ~Truthy(domainData, "domainName") THEN "ok"
        ELSE IF validateDomainName(domainName) # "ok" THEN validateDomainName(domainName)
        ELSE IF getDomain(domainName) # Null /\ ValueOf(getDomain(domainName)).uid # userId
          THEN "Domain name is not owned by you."
        ELSE "ok"
  IN  IF nameError # "ok" THEN nameError
      ELSE IF DOMAIN domainData = {} THEN "No valid data provided for update"
      ELSE "ok"

\* DocumentReference.set(data, {merge: true}) on a document that may not exist
SetMerge(collection, userId, data) ==
  LET old == IF collection[userId] = Null THEN <<>> ELSE ValueOf(collection[userId])
  IN  [collection EXCEPT ![userId] =
         Some([f \in DOMAIN old \cup DOMAIN data |->
                 IF f \in DOMAIN data THEN data[f] ELSE old[f]])]

\* the update drops every field of the document
DeleteFieldsAll(collection, userId, fields) ==
  [collection EXCEPT ![userId] = Some(<<>>)]

\* DocumentReference.update with FieldValue.delete() for each of fields
DeleteFields(collection, userId, fields) ==
  LET old == ValueOf(collection[userId])
  IN  [collection EXCEPT ![userId] = Some([f \in DOMAIN old \ fields |-> old[f]])]

\* the record of a completed call of Domain.ts or DomainCleanup.ts: its
\* arguments, what it threw ("ok" when it returned) and what it returned
Done(op, userId, arg, error, result) ==
  [op |-> op, userId |-> userId, arg |-> arg, error |-> error, result |-> result]

\* the document is written before the name is checked
updateUserDomainWriteFirst(userId, domainData) ==
  /\ last' = Done("updateUserDomain", userId, domainData,
                  UpdateUserDomainError(userId, domainData), Null)
  /\ docs' = SetMerge(docs, userId, domainData)
  /\ UNCHANGED <<now, store, activity, registeredAt, pending>>

updateUserDomain(userId, domainData) ==
  LET error == UpdateUserDomainError(userId, domainData) IN
  /\ last' = Done("updateUserDomain", userId, domainData, error, Null)
  /\ docs' = IF error # "ok" THEN docs ELSE SetMerge(docs, userId, domainData)
  /\ UNCHANGED <<now, store, activity, registeredAt, pending>>

deleteUserDomain(userId) ==
  /\ IF userId = ""
       THEN /\ last' = Done("deleteUserDomain", userId, <<>>, "User ID is required.", Null)
            /\ UNCHANGED docs
       ELSE /\ last' = Done("deleteUserDomain", userId, <<>>, "ok", Null)
            /\ docs' = [docs EXCEPT ![userId] = Null]
  /\ UNCHANGED <<now, store, activity, registeredAt, pending>>

\* update rejects when the document does not exist
clearDomainAssignment(userId) ==
  LET error == IF userId = "" THEN "User ID is required."
               ELSE IF docs[userId] = Null THEN "NOT_FOUND"
               ELSE "ok"
  IN  /\ last' = Done("clearDomainAssignment", userId, <<>>, error, Null)
      /\ docs' = IF error # "ok" THEN docs
                 ELSE DeleteFields(docs, userId, {"domainName", "publicKey"})
      /\ UNCHANGED <<now, store, activity, registeredAt, pending>>

checkDomainAvailability(domain) ==
  /\ last' =
       IF domain = ""
         THEN Done("checkDomainAvailability", "", domain, "Domain name is required.", Null)
       ELSE IF validateDomainName(domain) # "ok"
         THEN Done("checkDomainAvailability", "", domain, "ok",
                   [available |-> FALSE, message |-> validateDomainName(domain)])
       ELSE IF domain \in RESERVED_DOMAINS
         THEN Done("checkDomainAvailability", "", domain, "ok",
                   [available |-> FALSE, message |-> "Domain name is not available."])
       ELSE Done("checkDomainAvailability", "", domain, "ok",
                 [available |-> getDomain(domain) = Null,
                  message |-> IF getDomain(domain) = Null
                                THEN "Domain name is available."
                                ELSE "Domain name is not available."])
  /\ UNCHANGED <<now, store, activity, registeredAt, docs, pending>>

\* the document is replaced by the stamp instead of being updated
updateHeartbeatReplacing(userId) ==
  /\ last' = Done("updateHeartbeat", userId, <<>>, "ok", [lastSeenOnline |-> now])
  /\ docs' = [docs EXCEPT ![userId] = Some([lastSeenOnline |-> now])]
  /\ UNCHANGED <<now, store, activity, registeredAt, pending>>

\* the heartbeat is stamped with the clock: the ISO text of new Date() carries
\* the milliseconds of the clock and new Date(text) gives them back, so the
\* stamp is kept as the number it stands for
updateHeartbeat(userId) ==
  LET error == IF userId = "" THEN "User ID is required."
               ELSE IF getUserDomain(userId) = Null
                 THEN "User not found. Register a domain first."
               ELSE "ok"
      lastSeenOnline == now
  IN  /\ last' = Done("updateHeartbeat", userId, <<>>, error,
                      IF error = "ok" THEN [lastSeenOnline |-> lastSeenOnline] ELSE Null)
      /\ docs' = IF error # "ok" THEN docs
                 ELSE SetMerge(docs, userId, [lastSeenOnline |-> lastSeenOnline])
      /\ UNCHANGED <<now, store, activity, registeredAt, pending>>

DEFAULT_OFFLINE_THRESHOLD_SECONDS == 120

\* what checkOnlineStatus throws, "ok" when it returns
CheckOnlineStatusError(userId) ==
  IF userId = "" THEN "User ID is required."
  ELSE IF getUserDomain(userId) = Null THEN "User not found."
  ELSE "ok"

\* the user is offline from the threshold on
OnlineStatusExclusive(userId, thresholdSeconds) ==
  LET userData == ValueOf(getUserDomain(userId)) IN
  IF ~Has(userData, "lastSeenOnline") THEN [online |-> FALSE, lastSeenOnline |-> Null]
  ELSE [online |-> now - userData.lastSeenOnline < thresholdSeconds,
        lastSeenOnline |-> Some(userData.lastSeenOnline)]

\* what checkOnlineStatus returns for a user that has a record
OnlineStatus(userId, thresholdSeconds) ==
  LET userData == ValueOf(getUserDomain(userId)) IN
  IF ~Has(userData, "lastSeenOnline") THEN [online |-> FALSE, lastSeenOnline |-> Null]
  ELSE [online |-> now - userData.lastSeenOnline <= thresholdSeconds,
        lastSeenOnline |-> Some(userData.lastSeenOnline)]

checkOnlineStatus(userId, thresholdSeconds) ==
  LET error == CheckOnlineStatusError(userId) IN
  /\ last' = Done("checkOnlineStatus", userId, thresholdSeconds, error,
                  IF error # "ok" THEN Null ELSE OnlineStatus(userId, thresholdSeconds))
  /\ UNCHANGED <<now, store, activity, registeredAt, docs, pending>>

\* ------------------------------------------------------------------ cleanup

\* the clock counts seconds: the length of a day
DayLength == 24 * 60 * 60

\* the value of the INACTIVE_DOMAIN_DAYS environment variable (0: not set)
InactiveDomainDays == 1

DEFAULT_INACTIVE_DOMAIN_DAYS == 30

getInactiveDomainDays ==
  IF InactiveDomainDays > 0 THEN InactiveDomainDays ELSE DEFAULT_INACTIVE_DOMAIN_DAYS

\* the users of the identity registry, in the lexicographical order of their ids
UserOrder == <<"u1", "u2">>

RegistryUsers == {UserOrder[i] : i \in 1..Len(UserOrder)}

RankOf(userId) == CHOOSE i \in 1..Len(UserOrder) : UserOrder[i] = userId

\* ZRANGEBYSCORE: the members with min <= score <= max, by score and then by member
RECURSIVE ZRangeByScore(_, _, _)
ZRangeByScore(zset, min, max) ==
  LET members == {u \in DOMAIN zset : zset[u] # NoScore /\ zset[u] >= min /\ zset[u] <= max}
  IN  IF members = {} THEN <<>>
      ELSE LET first == CHOOSE u \in members : \A v \in members :
                          \/ zset[u] < zset[v]
                          \/ zset[u] = zset[v] /\ RankOf(u) <= RankOf(v)
           IN  <<first>> \o ZRangeByScore([zset EXCEPT ![first] = NoScore], min, max)

\* the threshold is inclusive
getInactiveUserIdsExclusive(inactiveDays) ==
  ZRangeByScore(activity, 0, now - (inactiveDays * DayLength) - 1)

getInactiveUserIds(inactiveDays) ==
  ZRangeByScore(activity, 0, now - (inactiveDays * DayLength))

removeFromActivityTracking(zset, userId) == [zset EXCEPT ![userId] = NoScore]

\* The store calls of one iteration that can reject: faults[userId] names the
\* call that rejects for userId, "none" when every call succeeds.
CleanupSteps ==
  {"getUserDomain", "getActivityTimestamp", "clearDomainAssignment",
   "removeFromActivityTracking"}

Faults == [RegistryUsers -> CleanupSteps \cup {"none"}]

NoFaults == [u \in RegistryUsers |-> "none"]

\* DomainLogger.ts: the line logDomainReleased appends, with the timestamp
\* appendLogEntry puts in front
logDomainReleased(domainName, userId, inactiveDays) ==
  [timestamp |-> now, event |-> "RELEASED", domainName |-> domainName,
   userId |-> userId, inactiveDays |-> inactiveDays]

\* the days runCleanup reports: those since the score of the user, the
\* threshold when getActivityTimestamp answers null or 0
ActualInactiveDays(zset, userId) ==
  IF zset[userId] = NoScore \/ zset[userId] = 0 THEN getInactiveDomainDays
  ELSE (now - zset[userId]) \div DayLength

\* the lines of an iteration come before those of the iterations after it
Logged(line, rest) == [rest EXCEPT !.log = <<line>> \o @]

\* the loop stops after the first user
CleanupLoopFirstOnly(userIds, collection, zset, releasedDomains, faults) ==
  IF userIds = <<>>
    THEN [docs |-> collection, activity |-> zset, domains |-> releasedDomains,
          error |-> "ok", log |-> <<>>]
  ELSE LET userId == Head(userIds)
           userData == collection[userId]
       IN  IF userData = Null \/ ~Truthy(ValueOf(userData), "domainName")
             THEN [docs |-> collection,
                   activity |-> removeFromActivityTracking(zset, userId),
                   domains |-> releasedDomains, error |-> "ok", log |-> <<>>]
             ELSE [docs |-> DeleteFields(collection, userId, {"domainName", "publicKey"}),
                   activity |-> removeFromActivityTracking(zset, userId),
                   domains |-> Append(releasedDomains, ValueOf(userData).domainName),
                   error |-> "ok",
                   log |-> <<logDomainReleased(ValueOf(userData).domainName, userId,
                                               ActualInactiveDays(zset, userId))>>]

\* the loop has no try and catch: the first rejection ends the pass, which
\* throws what the call threw
RECURSIVE CleanupLoopNoCatch(_, _, _, _, _)
CleanupLoopNoCatch(userIds, collection, zset, releasedDomains, faults) ==
  IF userIds = <<>>
    THEN [docs |-> collection, activity |-> zset, domains |-> releasedDomains,
          error |-> "ok", log |-> <<>>]
  ELSE LET userId == Head(userIds)
           userData == collection[userId]
           fault == faults[userId]
           line == logDomainReleased(ValueOf(userData).domainName, userId,
                                     ActualInactiveDays(zset, userId))
           Continue(nextCollection, nextZset, nextDomains) ==
             CleanupLoopNoCatch(Tail(userIds), nextCollection, nextZset, nextDomains, faults)
           Throw(nextCollection, lines) ==
             [docs |-> nextCollection, activity |-> zset, domains |-> releasedDomains,
              error |-> fault, log |-> lines]
       IN  IF fault = "getUserDomain" THEN Throw(collection, <<>>)
           ELSE IF userData = Null \/ ~Truthy(ValueOf(userData), "domainName")
             THEN IF fault = "removeFromActivityTracking"
                    THEN Throw(collection, <<>>)
                    ELSE Continue(collection, removeFromActivityTracking(zset, userId),
                                  releasedDomains)
           ELSE IF fault = "getActivityTimestamp"
             THEN Throw(collection, <<>>)
           ELSE IF fault = "clearDomainAssignment"
             THEN Throw(collection, <<line>>)
           ELSE IF fault = "removeFromActivityTracking"
             THEN Throw(DeleteFields(collection, userId, {"domainName", "publicKey"}),
                        <<line>>)
           ELSE Logged(line,
                       Continue(DeleteFields(collection, userId, {"domainName", "publicKey"}),
                                removeFromActivityTracking(zset, userId),
                                Append(releasedDomains, ValueOf(userData).domainName)))

\* the loop of runCleanup over userIds, from the collection, the sorted set and
\* the released domains so far; a rejected call ends the iteration of its user
\* where it stands, the catch logs it and the loop goes on with the next user,
\* so that the loop itself throws nothing; the RELEASED line of a user is
\* appended before clearDomainAssignment is called
RECURSIVE CleanupLoop(_, _, _, _, _)
CleanupLoop(userIds, collection, zset, releasedDomains, faults) ==
  IF userIds = <<>>
    THEN [docs |-> collection, activity |-> zset, domains |-> releasedDomains,
          error |-> "ok", log |-> <<>>]
  ELSE LET userId == Head(userIds)
           userData == collection[userId]
           fault == faults[userId]
           line == logDomainReleased(ValueOf(userData).domainName, userId,
                                     ActualInactiveDays(zset, userId))
           Continue(nextCollection, nextZset, nextDomains) ==
             CleanupLoop(Tail(userIds), nextCollection, nextZset, nextDomains, faults)
       IN  IF fault = "getUserDomain"
             THEN Continue(collection, zset, releasedDomains)
           ELSE IF userData = Null \/ ~Truthy(ValueOf(userData), "domainName")
             THEN IF fault = "removeFromActivityTracking"
                    THEN Continue(collection, zset, releasedDomains)
                    ELSE Continue(collection, removeFromActivityTracking(zset, userId),
                                  releasedDomains)
           ELSE IF fault = "getActivityTimestamp"
             THEN Continue(collection, zset, releasedDomains)
           ELSE IF fault = "clearDomainAssignment"
             THEN Logged(line, Continue(collection, zset, releasedDomains))
           ELSE IF fault = "removeFromActivityTracking"
             THEN Logged(line,
                         Continue(DeleteFields(collection, userId,
                                               {"domainName", "publicKey"}),
                                  zset, releasedDomains))
           ELSE Logged(line,
                       Continue(DeleteFields(collection, userId, {"domainName", "publicKey"}),
                                removeFromActivityTracking(zset, userId),
                                Append(releasedDomains, ValueOf(userData).domainName)))

\* a cleanup pass during which the calls named by faults reject
runCleanupFailing(faults) ==
  LET inactiveUserIds == getInactiveUserIds(getInactiveDomainDays)
      done == CleanupLoop(inactiveUserIds, docs, activity, <<>>, faults)
  IN  /\ docs' = done.docs
      /\ activity' = done.activity
      /\ log' = done.log
      /\ last' = Done("runCleanup", "", faults, done.error,
                      [releasedCount |-> Len(done.domains), domains |-> done.domains])
      /\ UNCHANGED <<now, store, registeredAt, pending>>

\* a cleanup pass during which no call rejects
runCleanup == runCleanupFailing(NoFaults)

\* the longest time the clock of the registry runs, in days
MaxDays == 2

\* a day passes
DayPasses ==
  /\ now < MaxDays * DayLength
  /\ now' = now + DayLength
  /\ store' = RedisExpire(store, now + DayLength)
  /\ last' = Done("day", "", <<>>, "ok", Null)
  /\ UNCHANGED <<activity, registeredAt, docs, pending>>

\* ------------------------------------------------------------------ registry

\* what a user sends to claim a subdomain
RegistryLabels == {"alice", "bob"}

PublicKeys == {"P1", "P2"}

DomainUpdates == [domainName : RegistryLabels, publicKey : PublicKeys]

\* the route a registered device announces
DeviceRoute == [ip |-> "1.1.1.1", port |-> 443, priority |-> 1, source |-> "agent"]

RegistryInit ==
  /\ now = 0
  /\ store = [k \in {getRoutesKey(u) : u \in RegistryUsers} |-> Null]
  /\ activity = [u \in RegistryUsers |-> NoScore]
  /\ registeredAt = [u \in RegistryUsers |-> <<>>]
  /\ last = Done("init", "", <<>>, "ok", Null)
  /\ docs = [u \in RegistryUsers |-> Null]
  /\ pending = Null
  /\ http = NoExchange
  /\ caCert = Null
  /\ caKey = Null
  /\ caCertPem = EmptyText
  /\ files = NoFiles
  /\ startup = "serving"
  /\ log = <<>>
  /\ tasks = NoTasks

RegistryNext ==
  \/ \E userId \in RegistryUsers, domainData \in DomainUpdates :
       updateUserDomain(userId, domainData) /\ log' = <<>> /\ UNCHANGED <<http, caVars, startup, tasks>>
  \/ \E userId \in RegistryUsers : deleteUserDomain(userId) /\ log' = <<>> /\ UNCHANGED <<http, caVars, startup, tasks>>
  \/ \E userId \in RegistryUsers : clearDomainAssignment(userId) /\ log' = <<>> /\ UNCHANGED <<http, caVars, startup, tasks>>
  \/ \E userId \in RegistryUsers : registerRoutes(userId, <<DeviceRoute>>) /\ log' = <<>> /\ UNCHANGED <<http, caVars, startup, tasks>>
  \/ runCleanup /\ UNCHANGED <<http, caVars, startup, tasks>>
  \/ DayPasses /\ log' = <<>> /\ UNCHANGED <<http, caVars, startup, tasks>>

RegistrySpec == RegistryInit /\ [][RegistryNext]_vars

\* ------------------------------------------------------------------ release

\* the labels users claim while devices come and go, a reserved one among them
ReleaseLabels == {"alice", "www"}

ReleaseUpdates == [domainName : ReleaseLabels, publicKey : {"P1"}]

ReleaseNext ==
  \/ \E userId \in RegistryUsers, domainData \in ReleaseUpdates :
       updateUserDomain(userId, domainData) /\ log' = <<>> /\ UNCHANGED <<http, caVars, startup, tasks>>
  \/ \E userId \in RegistryUsers : updateHeartbeat(userId) /\ log' = <<>> /\ UNCHANGED <<http, caVars, startup, tasks>>
  \/ \E userId \in RegistryUsers : clearDomainAssignment(userId) /\ log' = <<>> /\ UNCHANGED <<http, caVars, startup, tasks>>
  \/ \E userId \in RegistryUsers : registerRoutes(userId, <<DeviceRoute>>) /\ log' = <<>> /\ UNCHANGED <<http, caVars, startup, tasks>>
  \/ \E domain \in ReleaseLabels : checkDomainAvailability(domain) /\ log' = <<>> /\ UNCHANGED <<http, caVars, startup, tasks>>
  \/ runCleanup /\ UNCHANGED <<http, caVars, startup, tasks>>
  \/ DayPasses /\ log' = <<>> /\ UNCHANGED <<http, caVars, startup, tasks>>

ReleaseSpec == RegistryInit /\ [][ReleaseNext]_vars

\* ------------------------------------------------------------------ failing stores

FaultNext ==
  \/ \E userId \in RegistryUsers, domainData \in ReleaseUpdates :
       updateUserDomain(userId, domainData) /\ log' = <<>> /\ UNCHANGED <<http, caVars, startup, tasks>>
  \/ \E userId \in RegistryUsers : registerRoutes(userId, <<DeviceRoute>>) /\ log' = <<>> /\ UNCHANGED <<http, caVars, startup, tasks>>
  \/ \E faults \in Faults : runCleanupFailing(faults) /\ UNCHANGED <<http, caVars, startup, tasks>>
  \/ DayPasses /\ log' = <<>> /\ UNCHANGED <<http, caVars, startup, tasks>>

FaultSpec == RegistryInit /\ [][FaultNext]_vars

\* ------------------------------------------------------------------ CertificateAuthority.ts

\* the value of the SERVER_DOMAIN environment variable ("": not set)
ServerDomain == "nsl.sh"

\* null stands for the throw of getServerDomain when the variable is not set
getServerDomain == IF ServerDomain = "" THEN Null ELSE Some(ServerDomain)

\* the validity of an issued certificate, in hours
CERT_VALIDITY_HOURS == 72

\* the key pairs generateKeyPair can draw
KeyPairs == {"K1", "K2"}

\* forge.pki.certificateToPem and privateKeyToPem: the text that encodes the
\* object; certificateFromPem and privateKeyFromPem give the object back and
\* throw for any other text
certificateToPem(cert) == [pem |-> "CERTIFICATE", der |-> cert]

privateKeyToPem(key) == [pem |-> "RSA PRIVATE KEY", der |-> key]

IsPem(text, label) == Has(text, "der") /\ text.pem = label

certificateFromPem(text) == text.der

privateKeyFromPem(text) == text.der

\* a file whose text is no PEM
CorruptPem == [pem |-> "corrupt"]

\* generateRootCA(commonName, organization) with the key pair drawn: the
\* self-signed certificate and the private key, both in PEM
generateRootCA(commonName, organization, keys) ==
  [cert |-> certificateToPem([subject |-> [CN |-> commonName, O |-> organization,
                                           OU |-> "Mesh Router PKI"],
                              serialNumber |-> "01",
                              publicKey |-> keys]),
   key |-> privateKeyToPem([privateKey |-> keys])]

\* initializeCA generates and writes both files whenever one is missing
InitializeCAAlwaysGenerates(keys) ==
  LET generated == generateRootCA("Mesh Router CA", "NSL.SH", keys)
  IN  [caCertPath |-> Some(generated.cert), caKeyPath |-> Some(generated.key)]

\* the files after the first half of initializeCA: both are written when one
\* of them is missing, none otherwise
InitializeCAFiles(keys) ==
  LET generated == generateRootCA("Mesh Router CA", "NSL.SH", keys)
  IN  IF files.caCertPath = Null \/ files.caKeyPath = Null
        THEN [caCertPath |-> Some(generated.cert), caKeyPath |-> Some(generated.key)]
      ELSE files

\* initializeCA(): caCertPem is assigned as soon as the certificate file is
\* read, caCert once it parsed, caKey once the key parsed too; a text that
\* does not parse makes it throw with the assignments made so far kept
initializeCA ==
  \E keys \in KeyPairs :
    LET onDisk == InitializeCAFiles(keys)
        certPem == ValueOf(onDisk.caCertPath)
        keyPem == ValueOf(onDisk.caKeyPath)
        certParses == IsPem(certPem, "CERTIFICATE")
        keyParses == IsPem(keyPem, "RSA PRIVATE KEY")
    IN  /\ files' = onDisk
        /\ caCertPem' = certPem
        /\ caCert' = IF certParses THEN Some(certificateFromPem(certPem)) ELSE caCert
        /\ caKey' = IF certParses /\ keyParses THEN Some(privateKeyFromPem(keyPem))
                    ELSE caKey
        /\ last' = Done("initializeCA", "",
                        [certExists |-> files.caCertPath # Null,
                         keyExists |-> files.caKeyPath # Null],
                        IF certParses /\ keyParses THEN "ok"
                        ELSE "Failed to initialize Certificate Authority", Null)
        /\ UNCHANGED <<now, store, activity, registeredAt, docs, pending, log, tasks>>

isCAInitialized == caCert # Null /\ caKey # Null

\* what getCACertificate() throws, "ok" when it returns caCertPem
GetCACertificateError ==
  IF caCertPem = EmptyText THEN "Certificate Authority not initialized" ELSE "ok"

\* A certificate signing request in PEM: the text that parses is the record of
\* its subject and of whether its self-signature verifies; any other text is
\* a record without subject.
Csr(subject, verifies) == [subject |-> subject, verifies |-> verifies]

GarbagePem == [pem |-> "not a certificate request"]

\* csr.subject.getField('CN'): the value of the field, the text null without it
CommonNameOf(csr) == IF Has(csr.subject, "CN") THEN csr.subject.CN ELSE "null"

\* the certificate is issued before the common name is compared
SignCSRErrorNoCN(csrPem, userId) ==
  IF caCert = Null \/ caKey = Null THEN "Certificate Authority not initialized"
  ELSE IF ~Has(csrPem, "subject") THEN "Invalid CSR format"
  ELSE IF ~csrPem.verifies THEN "CSR signature verification failed"
  ELSE "ok"

\* what signCSR throws, "ok" when it issues
SignCSRError(csrPem, userId) ==
  IF caCert = Null \/ caKey = Null THEN "Certificate Authority not initialized"
  ELSE IF ~Has(csrPem, "subject") THEN "Invalid CSR format"
  ELSE IF ~csrPem.verifies THEN "CSR signature verification failed"
  ELSE IF ~Has(csrPem.subject, "CN") \/ csrPem.subject.CN # userId
    THEN "CSR Common Name (" \o CommonNameOf(csrPem) \o ") does not match userId ("
           \o userId \o ")"
  ELSE "ok"

\* the subjectAltName entries of the certificate: DNS names have type 2, IP
\* addresses type 7
AltNames(publicIp) ==
  (IF getServerDomain = Null THEN <<>>
   ELSE <<[type |-> 2, value |-> "*." \o ValueOf(getServerDomain)]>>)
    \o <<[type |-> 2, value |-> "*.nip.io"]>>
    \o (IF publicIp # Undef /\ publicIp # "" THEN <<[type |-> 7, ip |-> publicIp]>>
        ELSE <<>>)

\* the certificate signCSR builds (the random serial number is left out)
Certificate(csrPem, publicIp) ==
  [subject |-> csrPem.subject,
   issuer |-> ValueOf(caCert).subject,
   notBefore |-> now,
   notAfter |-> now + CERT_VALIDITY_HOURS * 60 * 60,
   altNames |-> AltNames(publicIp)]

\* signCSR(csrPem, userId, publicIp); publicIp is undefined when not passed
signCSR(csrPem, userId, publicIp) ==
  LET error == SignCSRError(csrPem, userId) IN
  /\ last' = Done("signCSR", userId, [csr |-> csrPem, publicIp |-> publicIp], error,
                  IF error # "ok" THEN Null
                  ELSE [certificate |-> Certificate(csrPem, publicIp),
                        expiresAt |-> now + CERT_VALIDITY_HOURS * 60 * 60])
  /\ UNCHANGED <<now, store, activity, registeredAt, docs, pending, caVars, startup, log, tasks>>

\* ------------------------------------------------------------------ RouterAPI.ts

\* the object with the fields of object that are among fields
Pick(object, fields) == [f \in DOMAIN object \cap fields |-> object[f]]

\* POST /domain for the authenticated user uid
postDomain(uid, body) ==
  IF ~Truthy(body, "domainName") /\ ~Truthy(body, "publicKey")
    THEN /\ http' = Exchange("POST", "/domain", uid, body, 400,
                             "At least 'domainName' or 'publicKey' must be provided.")
         /\ UNCHANGED <<now, store, activity, registeredAt, last, docs, pending>>
    ELSE LET domainData == Pick(body, {"domainName", "serverDomain", "publicKey"})
             error == UpdateUserDomainError(uid, domainData)
         IN  /\ updateUserDomain(uid, domainData)
             /\ http' = IF error = "ok"
                          THEN Exchange("POST", "/domain", uid, body, 200,
                                        "Domain information updated successfully.")
                          ELSE Exchange("POST", "/domain", uid, body, 500, error)

\* DELETE /domain for the authenticated user uid
deleteDomain(uid) ==
  /\ deleteUserDomain(uid)
  /\ http' = Exchange("DELETE", "/domain", uid, <<>>, 200,
                      "Domain information deleted successfully.")

\* An Ed25519 signature is the pair of the public key it verifies under and
\* the message signed; the text that does not parse is the empty tuple.
Signature(publicKey, message) == <<publicKey, message>>

MalformedSignature == <<>>

\* "valid", "mismatch", or "badFormat" when verifySignature throws
verifySignature(publicKey, sig, message) ==
  IF sig = MalformedSignature \/ publicKey = Undef THEN "badFormat"
  ELSE IF sig = Signature(publicKey, message) THEN "valid"
  ELSE "mismatch"

\* what the handler throws for route r at position index of the body
PostRouteError(r, index) ==
  IF ~Truthy(r, "ip") THEN <<"Route", index, "ip is required.">>
  ELSE IF ~Has(r, "port") \/ r.port = 0 \/ r.port < 1 \/ r.port > 65535
    THEN <<"Route", index, "port must be between 1 and 65535.">>
  ELSE IF ~Has(r, "priority") THEN <<"Route", index, "priority is required.">>
  ELSE <<>>

\* the route object the handler builds from a route of the body
NormalizeRoute(r) ==
  IF Has(r, "healthCheck") /\ Truthy(r.healthCheck, "path")
    THEN [ip |-> r.ip, port |-> r.port, priority |-> r.priority,
          healthCheck |-> Pick(r.healthCheck,
                               {"path"} \cup IF Truthy(r.healthCheck, "host")
                                               THEN {"host"} ELSE {})]
    ELSE [ip |-> r.ip, port |-> r.port, priority |-> r.priority]

\* POST /routes/:userid/:sig with the body {routes}
postRoutes(userid, sig, routes) ==
  LET userData == getUserDomain(userid)
      publicKey == IF Has(ValueOf(userData), "publicKey")
                     THEN ValueOf(userData).publicKey ELSE Undef
      failing == {i \in 1..Len(routes) : PostRouteError(routes[i], i - 1) # <<>>}
      validatedRoutes == [i \in 1..Len(routes) |-> NormalizeRoute(routes[i])]
      Reply(status, answer) ==
        Exchange("POST", "/routes", userid, routes, status, answer)
      Refuse(status, answer) ==
        /\ http' = Reply(status, answer)
        /\ UNCHANGED <<now, store, activity, registeredAt, last, docs, pending>>
  IN  IF Len(routes) = 0
        THEN Refuse(400, [error |-> "routes array is required in request body."])
      ELSE IF userData = Null
        THEN Refuse(404, [error |-> "User not found. Register a domain first."])
      ELSE IF verifySignature(publicKey, sig, userid) # "valid"
        THEN Refuse(401, [error |-> "Invalid signature."])
      ELSE IF failing # {}
        THEN Refuse(500, [error |-> PostRouteError(routes[MinOfSet(failing)],
                                                    MinOfSet(failing) - 1)])
      ELSE /\ registerRoutes(userid, validatedRoutes)
           /\ http' = IF RegisterError(userid, validatedRoutes) = "ok"
                        THEN Reply(200, [message |-> "Routes registered successfully.",
                                         routes |-> validatedRoutes])
                        ELSE Reply(500, [error |-> RegisterError(userid, validatedRoutes)])

\* userData.publicKey, undefined when the record has none
PublicKeyOf(userData) ==
  IF Has(ValueOf(userData), "publicKey") THEN ValueOf(userData).publicKey ELSE Undef

\* a handler answers without having written anything
Refuse(exchange) ==
  /\ http' = exchange
  /\ UNCHANGED <<now, store, activity, registeredAt, last, docs, pending, caVars, startup, log, tasks>>

\* a signature that does not parse is answered with an error of its own
getVerifyTelling(userid, sig) ==
  LET userData == getUserDomain(userid)
      Reply(answer) == Exchange("GET", "/verify", userid, <<>>, 200, answer)
  IN  IF userData = Null THEN Refuse(Reply([error |-> "unknown user"]))
      ELSE IF verifySignature(PublicKeyOf(userData), sig, userid) = "badFormat"
        THEN Refuse(Reply([error |-> "Invalid signature format."]))
      ELSE IF verifySignature(PublicKeyOf(userData), sig, userid) = "mismatch"
        THEN Refuse(Reply([valid |-> FALSE]))
      ELSE Refuse(Reply([serverDomain |-> ValueOf(getServerDomain)]
                          @@ Pick(ValueOf(userData), {"domainName"})))

\* GET /verify/:userid/:sig, which always answers 200
getVerify(userid, sig) ==
  LET userData == getUserDomain(userid)
      Reply(answer) == Exchange("GET", "/verify", userid, <<>>, 200, answer)
  IN  IF userData = Null THEN Refuse(Reply([error |-> "unknown user"]))
      ELSE IF verifySignature(PublicKeyOf(userData), sig, userid) = "badFormat"
        THEN Refuse(Reply([valid |-> FALSE]))
      ELSE IF verifySignature(PublicKeyOf(userData), sig, userid) = "mismatch"
        THEN Refuse(Reply([valid |-> FALSE]))
      ELSE IF getServerDomain = Null
        THEN Refuse(Reply([error |-> "Error: SERVER_DOMAIN is not set"]))
      ELSE Refuse(Reply([serverDomain |-> ValueOf(getServerDomain)]
                          @@ Pick(ValueOf(userData), {"domainName"})))

\* the heartbeat of a user without record creates the record
postHeartbeatCreating(userid, sig) ==
  /\ docs' = SetMerge(docs, userid, [lastSeenOnline |-> now])
  /\ http' = Exchange("POST", "/heartbeat", userid, <<>>, 200,
                      [message |-> "Heartbeat received.", lastSeenOnline |-> now])
  /\ UNCHANGED <<now, store, activity, registeredAt, last, pending, caVars, startup, log, tasks>>

\* POST /heartbeat/:userid/:sig
postHeartbeat(userid, sig) ==
  LET userData == getUserDomain(userid)
      Reply(status, answer) == Exchange("POST", "/heartbeat", userid, <<>>, status, answer)
  IN  IF userData = Null
        THEN Refuse(Reply(404, [error |-> "User not found. Register a domain first."]))
      ELSE IF verifySignature(PublicKeyOf(userData), sig, userid) = "badFormat"
        THEN Refuse(Reply(401, [error |-> "Invalid signature."]))
      ELSE IF verifySignature(PublicKeyOf(userData), sig, userid) = "mismatch"
        THEN Refuse(Reply(401, [error |-> "Invalid signature."]))
      ELSE /\ updateHeartbeat(userid)
           /\ http' = Reply(200, [message |-> "Heartbeat received.",
                                  lastSeenOnline |-> now])
           /\ UNCHANGED <<caVars, startup, log, tasks>>

\* DELETE /routes/:userid/:sig
deleteRoutesOf(userid, sig) ==
  LET userData == getUserDomain(userid)
      Reply(status, answer) == Exchange("DELETE", "/routes", userid, <<>>, status, answer)
  IN  IF userData = Null
        THEN Refuse(Reply(404, [error |-> "User not found."]))
      ELSE IF verifySignature(PublicKeyOf(userData), sig, userid) = "badFormat"
        THEN Refuse(Reply(401, [error |-> "Invalid signature."]))
      ELSE IF verifySignature(PublicKeyOf(userData), sig, userid) = "mismatch"
        THEN Refuse(Reply(401, [error |-> "Invalid signature."]))
      ELSE /\ deleteRoutes(userid)
           /\ http' = Reply(200, [message |-> "Routes deleted successfully."])
           /\ UNCHANGED <<caVars, startup, log, tasks>>

\* the message of a thrown error is one the handler of POST /cert answers 400 for
IsCsrError(message) ==
  \/ Includes(message, "CSR Common Name")
  \/ Includes(message, "Invalid CSR")
  \/ Includes(message, "CSR signature verification")

\* POST /cert/:userid/:sig with the body {csr, publicIp}: the handler reads csr
\* only and calls signCSR(csr, userid)
postCert(userid, sig, body) ==
  LET userData == getUserDomain(userid)
      Reply(status, answer) == Exchange("POST", "/cert", userid, body, status, answer)
  IN  IF ~isCAInitialized
        THEN Refuse(Reply(503, [error |-> "Certificate Authority not initialized"]))
      ELSE IF ~Has(body, "csr")
        THEN Refuse(Reply(400, [error |-> "CSR is required in request body"]))
      ELSE IF userData = Null
        THEN Refuse(Reply(404, [error |-> "User not found. Register a domain first."]))
      ELSE IF verifySignature(PublicKeyOf(userData), sig, userid) = "badFormat"
        THEN Refuse(Reply(401, [error |-> "Invalid signature."]))
      ELSE IF verifySignature(PublicKeyOf(userData), sig, userid) = "mismatch"
        THEN Refuse(Reply(401, [error |-> "Invalid signature."]))
      ELSE LET error == SignCSRError(body.csr, userid) IN
           /\ signCSR(body.csr, userid, Undef)
           /\ http' = IF error = "ok"
                        THEN Reply(200, [certificate |-> Certificate(body.csr, Undef),
                                         expiresAt |-> now + CERT_VALIDITY_HOURS * 60 * 60,
                                         caCertificate |-> caCertPem])
                      ELSE IF IsCsrError(error) THEN Reply(400, [error |-> error])
                      ELSE Reply(500, [error |-> "Error: " \o error])

UpperCase == "ABCDEFGHIJKLMNOPQRSTUVWXYZ"

LowerCase == "abcdefghijklmnopqrstuvwxyz"

\* String.prototype.toLowerCase on the characters of ASCII
RECURSIVE toLowerCase(_)
toLowerCase(s) ==
  IF s = "" THEN ""
  ELSE LET c == CharAt(s, 1)
           lower == IF \E i \in 1..Len(UpperCase) : CharAt(UpperCase, i) = c
                      THEN CharAt(LowerCase,
                                  CHOOSE i \in 1..Len(UpperCase) : CharAt(UpperCase, i) = c)
                      ELSE c
       IN  lower \o toLowerCase(SubSeq(s, 2, Len(s)))

\* String.prototype.trim on spaces
RECURSIVE trim(_)
trim(s) ==
  IF s = "" THEN ""
  ELSE IF CharAt(s, 1) = " " THEN trim(SubSeq(s, 2, Len(s)))
  ELSE IF CharAt(s, Len(s)) = " " THEN trim(SubSeq(s, 1, Len(s) - 1))
  ELSE s

\* GET /resolve/v2/:domain
getResolveV2(param) ==
  LET domain == toLowerCase(trim(param))
      domainData == getDomain(domain)
      uid == ValueOf(domainData).uid
      Reply(status, answer) == Exchange("GET", "/resolve/v2", "", param, status, answer)
  IN  IF GetDomainError(domain) # "ok"
        THEN Refuse(Reply(500, [error |-> "Error: " \o GetDomainError(domain)]))
      ELSE IF domainData = Null
        THEN Refuse(Reply(404, [error |-> "Domain not found."]))
      ELSE IF getServerDomain = Null
        THEN Refuse(Reply(500, [error |-> "Error: SERVER_DOMAIN is not set"]))
      ELSE Refuse(Reply(200,
             [userId |-> uid,
              domainName |-> ValueOf(domainData).domain.domainName,
              serverDomain |-> ValueOf(getServerDomain),
              routes |-> IF getRoutes(uid) = Null THEN <<>> ELSE ValueOf(getRoutes(uid)),
              routesTtl |-> getRoutesTTL(uid),
              lastSeenOnline |->
                IF Has(ValueOf(domainData).domain, "lastSeenOnline")
                  THEN Some(ValueOf(domainData).domain.lastSeenOnline) ELSE Null]))

\* GET /status/:userid
getStatus(userid) ==
  LET error == CheckOnlineStatusError(userid)
      Reply(status, answer) == Exchange("GET", "/status", userid, <<>>, status, answer)
  IN  /\ checkOnlineStatus(userid, DEFAULT_OFFLINE_THRESHOLD_SECONDS)
      /\ http' = IF error = "ok"
                   THEN Reply(200, OnlineStatus(userid, DEFAULT_OFFLINE_THRESHOLD_SECONDS))
                 ELSE IF error = "User not found." THEN Reply(404, [error |-> error])
                 ELSE Reply(500, [error |-> "Error: " \o error])
      /\ UNCHANGED <<caVars, startup, log, tasks>>

\* what a user posts to /domain
DomainBodies ==
  [domainName : {"alice", "www"}, publicKey : {"P1"}] \cup {[publicKey |-> "P1"], <<>>}

\* the signatures a caller presents
Signatures == {Signature("P1", "u1"), Signature("P2", "u1"), MalformedSignature}

\* the routes of an agent and of a tunnel, and a route without ip
AgentRoute ==
  [ip |-> "1.1.1.1", port |-> 443, priority |-> 1, source |-> "agent", scheme |-> "http"]

TunnelRoute ==
  [ip |-> "2.2.2.2", port |-> 443, priority |-> 2, source |-> "tunnel",
   type |-> "domain", domain |-> "t.example.com"]

RouteBodies ==
  {<<>>, <<AgentRoute>>, <<TunnelRoute>>, <<AgentRoute, TunnelRoute>>,
   <<[port |-> 443, priority |-> 1, source |-> "agent"]>>}

Label63 == "abcdefghijklmnopqrstuvwxyz0123456789abcdefghijklmnopqrstuvwxyz0"

Label64 == "abcdefghijklmnopqrstuvwxyz0123456789abcdefghijklmnopqrstuvwxyz01"

\* the names asked of checkDomainAvailability
AvailabilityInputs ==
  {"", "alice", "bob", "a-b", "Alice", Label63, Label64, "root", "app", "www"}

ApiNext ==
  \/ \E uid \in Users, body \in DomainBodies : postDomain(uid, body) /\ UNCHANGED <<caVars, startup, log, tasks>>
  \/ \E uid \in Users : deleteDomain(uid) /\ UNCHANGED <<caVars, startup, log, tasks>>
  \/ \E userid \in Users, sig \in Signatures, routes \in RouteBodies :
       postRoutes(userid, sig, routes) /\ UNCHANGED <<caVars, startup, log, tasks>>
  \/ \E domain \in AvailabilityInputs : checkDomainAvailability(domain) /\ UNCHANGED <<http, caVars, startup, log, tasks>>

ApiSpec == Init /\ [][ApiNext]_vars

\* ------------------------------------------------------------------ signed endpoints

\* records with and without a public key
SignedDomainBodies == {[domainName |-> "alice", publicKey |-> "P1"], [domainName |-> "alice"]}

\* a request of CN u1 whose self-signature verifies
GoodCsr == Csr([CN |-> "u1"], TRUE)

SignedNext ==
  \/ \E uid \in Users, body \in SignedDomainBodies : postDomain(uid, body) /\ UNCHANGED <<caVars, startup, log, tasks>>
  \/ \E uid \in Users : deleteDomain(uid) /\ UNCHANGED <<caVars, startup, log, tasks>>
  \/ \E userid \in Users, sig \in Signatures, routes \in {<<>>, <<AgentRoute>>} :
       postRoutes(userid, sig, routes) /\ UNCHANGED <<caVars, startup, log, tasks>>
  \/ \E userid \in Users, sig \in Signatures : deleteRoutesOf(userid, sig)
  \/ \E userid \in Users, sig \in Signatures : postHeartbeat(userid, sig)
  \/ \E userid \in Users, sig \in Signatures, body \in {<<>>, [csr |-> GoodCsr]} :
       postCert(userid, sig, body)
  \/ \E userid \in Users, sig \in Signatures : getVerify(userid, sig)
  \/ initializeCA /\ UNCHANGED <<http, startup>>
  \/ Tick /\ UNCHANGED <<http, caVars, startup, log, tasks>>

SignedSpec == Init /\ [][SignedNext]_vars

\* ------------------------------------------------------------------ resolution

\* the labels asked of GET /resolve/v2: an owned label as stored, in capitals
\* and between spaces, a label nobody owns, one with a hyphen and a space
ResolveInputs == {"alice", "ALICE", " alice ", "bob", "a-b", " "}

ResolveNext ==
  \/ \E uid \in Users : postDomain(uid, [domainName |-> "alice", publicKey |-> "P1"])
                          /\ UNCHANGED <<caVars, startup, log, tasks>>
  \/ \E uid \in Users : deleteDomain(uid) /\ UNCHANGED <<caVars, startup, log, tasks>>
  \/ \E userid \in Users : postRoutes(userid, Signature("P1", userid), <<AgentRoute>>)
                             /\ UNCHANGED <<caVars, startup, log, tasks>>
  \/ \E userid \in Users : postHeartbeat(userid, Signature("P1", userid))
  \/ \E param \in ResolveInputs : getResolveV2(param)
  \/ Tick /\ UNCHANGED <<http, caVars, startup, log, tasks>>

ResolveSpec == Init /\ [][ResolveNext]_vars

\* ------------------------------------------------------------------ online status

\* the instants at which something happens: a start, and the seconds around
\* the default threshold after it
StatusTimes == {0, 119, 120, 121}

\* the thresholds passed to checkOnlineStatus
Thresholds == {DEFAULT_OFFLINE_THRESHOLD_SECONDS, 1}

\* the clock moves on to a later instant
Advance(time) ==
  /\ time > now
  /\ now' = time
  /\ store' = RedisExpire(store, time)
  /\ last' = Done("advance", "", time, "ok", Null)
  /\ UNCHANGED <<activity, registeredAt, docs, pending>>

StatusNext ==
  \/ \E userId \in Users, domainData \in DomainUpdates :
       updateUserDomain(userId, domainData) /\ UNCHANGED <<http, caVars, startup, log, tasks>>
  \/ \E userId \in Users : deleteUserDomain(userId) /\ UNCHANGED <<http, caVars, startup, log, tasks>>
  \/ \E userId \in Users : updateHeartbeat(userId) /\ UNCHANGED <<http, caVars, startup, log, tasks>>
  \/ \E userId \in Users : clearDomainAssignment(userId) /\ UNCHANGED <<http, caVars, startup, log, tasks>>
  \/ \E userId \in Users, thresholdSeconds \in Thresholds :
       checkOnlineStatus(userId, thresholdSeconds) /\ UNCHANGED <<http, caVars, startup, log, tasks>>
  \/ \E userid \in Users : getStatus(userid)
  \/ \E time \in StatusTimes : Advance(time) /\ UNCHANGED <<http, caVars, startup, log, tasks>>

StatusSpec == Init /\ [][StatusNext]_vars

\* ------------------------------------------------------------------ certificates

\* the requests presented: a text that does not parse, requests for u1 and for
\* u2 whose self-signature verifies or not, and a request without common name
Csrs ==
  {GarbagePem,
   Csr([CN |-> "u1"], TRUE), Csr([CN |-> "u1"], FALSE),
   Csr([CN |-> "u2"], TRUE), Csr([CN |-> "u2"], FALSE),
   Csr(<<>>, TRUE)}

PublicIps == {"203.0.113.7"}

\* the bodies of POST /cert: none, a csr, a csr and a publicIp
CertBodies ==
  {<<>>} \cup [csr : Csrs] \cup [csr : Csrs, publicIp : PublicIps]

CertNext ==
  \/ \E uid \in Users : postDomain(uid, [domainName |-> "alice", publicKey |-> "P1"])
                          /\ UNCHANGED <<caVars, startup, log, tasks>>
  \/ initializeCA /\ UNCHANGED <<http, startup>>
  \/ \E userid \in Users, sig \in Signatures, body \in CertBodies :
       postCert(userid, sig, body)
  \/ \E csrPem \in Csrs, userId \in Users, publicIp \in PublicIps \cup {Undef} :
       signCSR(csrPem, userId, publicIp) /\ UNCHANGED http

CertSpec == Init /\ [][CertNext]_vars

\* ------------------------------------------------------------------ start-up

CaPaths == {"caCertPath", "caKeyPath"}

\* GET /ca-cert
getCaCert ==
  LET Reply(status, answer) == Exchange("GET", "/ca-cert", "", <<>>, status, answer)
  IN  IF ~isCAInitialized
        THEN Refuse(Reply(503, [error |-> "Certificate Authority not initialized"]))
      ELSE IF GetCACertificateError # "ok"
        THEN Refuse(Reply(500, [error |-> "Error: " \o GetCACertificateError]))
      ELSE Refuse(Reply(200, caCertPem))

\* the callback mounts the handlers without waiting for initializeCA
listenCallbackMountingFirst ==
  /\ startup = "listening"
  /\ initializeCA
  /\ startup' = "serving"
  /\ UNCHANGED http

\* the callback of expressApp.listen: it awaits initializeCA, which has no
\* await of its own, and mounts the handlers with routerAPI(expressApp) only
\* afterwards; when initializeCA throws the callback rejects and no handler is
\* ever mounted
listenCallback ==
  /\ startup = "listening"
  /\ initializeCA
  /\ startup' = IF last'.error = "ok" THEN "serving" ELSE "crashed"
  /\ UNCHANGED http

\* the process ends and is started again: the module state of
\* CertificateAuthority.ts is initial again, the files are as they were left
restart ==
  /\ startup # "listening"
  /\ caCert' = Null
  /\ caKey' = Null
  /\ caCertPem' = EmptyText
  /\ startup' = "listening"
  /\ last' = Done("restart", "", <<>>, "ok", Null)
  /\ UNCHANGED <<now, store, activity, registeredAt, docs, pending, http, files, log, tasks>>

\* a CA file is deleted from the disk
removeFile(path) ==
  /\ files[path] # Null
  /\ files' = [files EXCEPT ![path] = Null]
  /\ last' = Done("removeFile", "", path, "ok", Null)
  /\ UNCHANGED <<now, store, activity, registeredAt, docs, pending, http,
                 caCert, caKey, caCertPem, startup, log, tasks>>

\* a CA file is damaged: its text is no PEM any more
corruptFile(path) ==
  /\ files[path] # Null
  /\ files' = [files EXCEPT ![path] = Some(CorruptPem)]
  /\ last' = Done("corruptFile", "", path, "ok", Null)
  /\ UNCHANGED <<now, store, activity, registeredAt, docs, pending, http,
                 caCert, caKey, caCertPem, startup, log, tasks>>

\* the process was started and its listen callback has not run yet
CaInit ==
  /\ now = 0
  /\ store = [k \in RouteKeys |-> Null]
  /\ activity = [u \in Users |-> NoScore]
  /\ registeredAt = [u \in Users |-> [s \in Sources \cup {Undef} |-> NoScore]]
  /\ last = Done("init", "", <<>>, "ok", Null)
  /\ docs = [u \in Users |-> Null]
  /\ pending = Null
  /\ http = NoExchange
  /\ caCert = Null
  /\ caKey = Null
  /\ caCertPem = EmptyText
  /\ files = NoFiles
  /\ startup = "listening"
  /\ log = <<>>
  /\ tasks = NoTasks

\* requests reach a handler only once routerAPI mounted it
CaNext ==
  \/ listenCallback
  \/ restart
  \/ \E path \in CaPaths : removeFile(path)
  \/ \E path \in CaPaths : corruptFile(path)
  \/ startup = "serving" /\ getCaCert
  \/ startup = "serving"
       /\ \E uid \in Users : postDomain(uid, [domainName |-> "alice", publicKey |-> "P1"])
                               /\ UNCHANGED <<caVars, startup, log, tasks>>
  \/ startup = "serving"
       /\ \E userid \in Users, sig \in Signatures, body \in {<<>>, [csr |-> GoodCsr]} :
            postCert(userid, sig, body)

CaSpec == CaInit /\ [][CaNext]_vars

\* ------------------------------------------------------------------ steps of registerRoutes

\* registerRoutes awaits Redis three times: the read and the write of the
\* routes are taken as one step, the write of the activity entry as a second.

\* the activity entry is written with the routes
registerRoutesWriteTracking(userId, routes) ==
  LET error == RegisterError(userId, routes) IN
  /\ pending = Null
  /\ IF error # "ok"
       THEN /\ last' = Call("registerRoutes", userId, routes, error, <<>>)
            /\ UNCHANGED <<store, activity, pending>>
       ELSE /\ store' = RedisSetex(store, getRoutesKey(userId), getRoutesTtl,
                                   MergeRoutes(RoutesOf(userId), routes))
            /\ activity' = [activity EXCEPT ![userId] = now]
            /\ pending' = Some([userId |-> userId, routes |-> routes, time |-> now,
                                existingRoutes |-> RoutesOf(userId)])
            /\ UNCHANGED last
  /\ UNCHANGED <<now, registeredAt, docs>>

\* up to await redis.setex: validation, read, merge and write of the routes
registerRoutesWrite(userId, routes) ==
  LET error == RegisterError(userId, routes) IN
  /\ pending = Null
  /\ IF error # "ok"
       THEN /\ last' = Call("registerRoutes", userId, routes, error, <<>>)
            /\ UNCHANGED <<store, pending>>
       ELSE /\ store' = RedisSetex(store, getRoutesKey(userId), getRoutesTtl,
                                   MergeRoutes(RoutesOf(userId), routes))
            /\ pending' = Some([userId |-> userId, routes |-> routes, time |-> now,
                                existingRoutes |-> RoutesOf(userId)])
            /\ UNCHANGED last
  /\ UNCHANGED <<now, activity, registeredAt, docs>>

\* await updateActivityTracking(userId), and the call returns
registerRoutesTrack ==
  /\ pending # Null
  /\ LET call == ValueOf(pending) IN
       /\ activity' = [activity EXCEPT ![call.userId] = now]
       /\ registeredAt' =
            [registeredAt EXCEPT ![call.userId] =
               [s \in DOMAIN @ |->
                  IF s \in IncomingSources(call.routes) THEN now ELSE @[s]]]
       /\ last' = Call("registerRoutes", call.userId, call.routes, "ok",
                       call.existingRoutes)
  /\ pending' = Null
  /\ UNCHANGED <<now, store, docs>>

\* a route of each source and a route with port 0
StepRoutes ==
  [ip : {"1.1.1.1"}, port : {443}, priority : {1}, source : Sources]
    \cup [ip : {"1.1.1.1"}, port : {0}, priority : {1}, source : {"agent"}]

StepBatches == UNION {[1..n -> StepRoutes] : n \in 0..MaxBatch}

StepNext ==
  \/ \E userId \in UserIds, routes \in StepBatches :
       registerRoutesWrite(userId, routes) /\ UNCHANGED <<http, caVars, startup, log, tasks>>
  \/ registerRoutesTrack /\ UNCHANGED <<http, caVars, startup, log, tasks>>
  \/ \E userId \in Users : deleteRoutes(userId) /\ UNCHANGED <<http, caVars, startup, log, tasks>>
  \/ Tick /\ UNCHANGED <<http, caVars, startup, log, tasks>>

StepSpec == Init /\ [][StepNext]_vars

\* ------------------------------------------------------------------ concurrent registrations

\* the requests in flight at once; each makes one call of registerRoutes
Tasks == {"t1", "t2"}

Idle == [pc |-> "idle"]

\* the routes the concurrent calls announce: two of the agent, one of the
\* tunnel, one without source, all with keys of their own
RaceRoutes ==
  <<[ip |-> "1.1.1.1", port |-> 443, priority |-> 1, source |-> "agent"],
    [ip |-> "1.1.1.2", port |-> 443, priority |-> 1, source |-> "agent"],
    [ip |-> "2.2.2.2", port |-> 443, priority |-> 2, source |-> "tunnel"],
    [ip |-> "3.3.3.3", port |-> 443, priority |-> 3]>>

RaceBatches ==
  {<<>>, <<RaceRoutes[1]>>, <<RaceRoutes[2]>>, <<RaceRoutes[1], RaceRoutes[2]>>,
   <<RaceRoutes[3]>>, <<RaceRoutes[4]>>}

\* the writes of the routes made so far
Writes == Cardinality({t \in Tasks : tasks[t].pc \in {"updateActivityTracking", "done"}})

\* up to await redis.get(key): validation and the read of the stored routes
registerRoutesGet(task, userId, routes) ==
  LET error == RegisterError(userId, routes) IN
  /\ tasks[task].pc = "idle"
  /\ IF error # "ok"
       THEN /\ last' = Call("registerRoutes", userId, routes, error, <<>>)
            /\ tasks' = [tasks EXCEPT ![task] =
                           [pc |-> "done", userId |-> userId, routes |-> routes,
                            error |-> error]]
       ELSE /\ tasks' = [tasks EXCEPT ![task] =
                           [pc |-> "setex", userId |-> userId, routes |-> routes,
                            existingRoutes |-> RoutesOf(userId), error |-> "ok"]]
            /\ UNCHANGED last
  /\ UNCHANGED <<now, store, activity, registeredAt, docs, pending>>

\* up to await redis.setex: the merge of the routes read with the incoming
\* ones, and the write of the result
registerRoutesSetex(task) ==
  LET call == tasks[task] IN
  /\ call.pc = "setex"
  /\ store' = RedisSetex(store, getRoutesKey(call.userId), getRoutesTtl,
                         MergeRoutes(call.existingRoutes, call.routes))
  /\ tasks' = [tasks EXCEPT ![task] =
                 [call EXCEPT !.pc = "updateActivityTracking"] @@ [wrote |-> Writes + 1]]
  /\ UNCHANGED <<now, activity, registeredAt, last, docs, pending>>

\* await updateActivityTracking(userId), and the call returns
registerRoutesUpdateActivity(task) ==
  LET call == tasks[task] IN
  /\ call.pc = "updateActivityTracking"
  /\ activity' = [activity EXCEPT ![call.userId] = now]
  /\ registeredAt' =
       [registeredAt EXCEPT ![call.userId] =
          [s \in DOMAIN @ |-> IF s \in IncomingSources(call.routes) THEN now ELSE @[s]]]
  /\ last' = Call("registerRoutes", call.userId, call.routes, "ok", call.existingRoutes)
  /\ tasks' = [tasks EXCEPT ![task] = [call EXCEPT !.pc = "done"]]
  /\ UNCHANGED <<now, store, docs, pending>>

RaceInit ==
  /\ now = 0
  /\ store = [k \in RouteKeys |-> Null]
  /\ activity = [u \in Users |-> NoScore]
  /\ registeredAt = [u \in Users |-> [s \in Sources \cup {Undef} |-> NoScore]]
  /\ last = Call("init", "", <<>>, "ok", <<>>)
  /\ docs = [u \in Users |-> Null]
  /\ pending = Null
  /\ http = NoExchange
  /\ caCert = Null
  /\ caKey = Null
  /\ caCertPem = EmptyText
  /\ files = NoFiles
  /\ startup = "serving"
  /\ log = <<>>
  /\ tasks = [t \in Tasks |-> Idle]

RaceNext ==
  \/ \E task \in Tasks, userId \in Users, routes \in RaceBatches :
       registerRoutesGet(task, userId, routes) /\ UNCHANGED <<http, caVars, startup, log>>
  \/ \E task \in Tasks : registerRoutesSetex(task) /\ UNCHANGED <<http, caVars, startup, log>>
  \/ \E task \in Tasks :
       registerRoutesUpdateActivity(task) /\ UNCHANGED <<http, caVars, startup, log>>

RaceSpec == RaceInit /\ [][RaceNext]_vars

\* ------------------------------------------------------------------ steps of runCleanup

\* runCleanup awaits the stores once before its loop and up to four times in
\* an iteration; between two awaits other calls run. The pass in flight is
\* tasks.cleanup: its position pc (the call it awaits next), the user ids it
\* read, the index i of the user of the iteration, the label it read for that
\* user and the labels released so far.

\* what the users send while a pass runs: a label with a key, or a key alone
PassUpdates == [domainName : {"alice"}, publicKey : {"P1"}] \cup [publicKey : {"P1"}]

IdlePass ==
  [pc |-> "idle", inactiveUserIds |-> <<>>, i |-> 0, domainName |-> Null,
   releasedDomains |-> <<>>]

\* the iteration ends: the loop goes on with the next user, or is over
NextUser(pass) ==
  IF pass.i < Len(pass.inactiveUserIds)
    THEN [pass EXCEPT !.pc = "getUserDomain", !.i = @ + 1, !.domainName = Null]
    ELSE [pass EXCEPT !.pc = "return", !.domainName = Null]

\* up to await getInactiveUserIds(inactiveDays)
cleanupStart ==
  LET inactiveUserIds == getInactiveUserIds(getInactiveDomainDays) IN
  /\ tasks.cleanup.pc \in {"idle", "done"}
  /\ tasks' = [tasks EXCEPT !.cleanup =
                 [pc |-> IF inactiveUserIds = <<>> THEN "return" ELSE "getUserDomain",
                  inactiveUserIds |-> inactiveUserIds, i |-> 1, domainName |-> Null,
                  releasedDomains |-> <<>>]]
  /\ log' = <<>>
  /\ UNCHANGED <<now, store, activity, registeredAt, last, docs, pending>>

\* a record without label is released like one with a label
cleanupGetUserDomainAnyRecord(rejects) ==
  LET pass == tasks.cleanup
      userId == pass.inactiveUserIds[pass.i]
      userData == getUserDomain(userId)
  IN  /\ pass.pc = "getUserDomain"
      /\ tasks' = [tasks EXCEPT !.cleanup =
                     IF rejects THEN NextUser(pass)
                     ELSE IF userData = Null
                       THEN [pass EXCEPT !.pc = "removeFromActivityTracking"]
                     ELSE [pass EXCEPT !.pc = "getActivityTimestamp",
                                       !.domainName =
                                          Some(IF Has(ValueOf(userData), "domainName")
                                                 THEN ValueOf(userData).domainName
                                                 ELSE Undef)]]
      /\ UNCHANGED <<now, store, activity, registeredAt, last, docs, pending, log>>

\* up to await getUserDomain(userId); a user without record or without label
\* goes to removeFromActivityTracking with no label read
cleanupGetUserDomain(rejects) ==
  LET pass == tasks.cleanup
      userId == pass.inactiveUserIds[pass.i]
      userData == getUserDomain(userId)
  IN  /\ pass.pc = "getUserDomain"
      /\ tasks' = [tasks EXCEPT !.cleanup =
                     IF rejects THEN NextUser(pass)
                     ELSE IF userData = Null \/ ~Truthy(ValueOf(userData), "domainName")
                       THEN [pass EXCEPT !.pc = "removeFromActivityTracking"]
                     ELSE [pass EXCEPT !.pc = "getActivityTimestamp",
                                       !.domainName = Some(ValueOf(userData).domainName)]]
      /\ UNCHANGED <<now, store, activity, registeredAt, last, docs, pending, log>>

\* up to await getActivityTimestamp(userId), and then logDomainReleased,
\* which does not await
cleanupGetActivityTimestamp(rejects) ==
  LET pass == tasks.cleanup
      userId == pass.inactiveUserIds[pass.i]
  IN  /\ pass.pc = "getActivityTimestamp"
      /\ IF rejects
           THEN /\ tasks' = [tasks EXCEPT !.cleanup = NextUser(pass)]
                /\ UNCHANGED log
           ELSE /\ tasks' = [tasks EXCEPT !.cleanup.pc = "clearDomainAssignment"]
                /\ log' = Append(log, logDomainReleased(ValueOf(pass.domainName), userId,
                                                        ActualInactiveDays(activity, userId)))
      /\ UNCHANGED <<now, store, activity, registeredAt, last, docs, pending>>

\* up to await clearDomainAssignment(userId): the update rejects when the
\* record is gone
cleanupClearDomainAssignment(rejects) ==
  LET pass == tasks.cleanup
      userId == pass.inactiveUserIds[pass.i]
  IN  /\ pass.pc = "clearDomainAssignment"
      /\ IF rejects \/ docs[userId] = Null
           THEN /\ tasks' = [tasks EXCEPT !.cleanup = NextUser(pass)]
                /\ UNCHANGED docs
           ELSE /\ tasks' = [tasks EXCEPT !.cleanup.pc = "removeFromActivityTracking"]
                /\ docs' = DeleteFields(docs, userId, {"domainName", "publicKey"})
      /\ UNCHANGED <<now, store, activity, registeredAt, last, pending, log>>

\* up to await removeFromActivityTracking(userId), in either branch of the
\* iteration, and releasedDomains.push(domainName) when a label was cleared
cleanupRemoveFromActivityTracking(rejects) ==
  LET pass == tasks.cleanup
      userId == pass.inactiveUserIds[pass.i]
  IN  /\ pass.pc = "removeFromActivityTracking"
      /\ IF rejects
           THEN /\ tasks' = [tasks EXCEPT !.cleanup = NextUser(pass)]
                /\ UNCHANGED activity
           ELSE /\ tasks' = [tasks EXCEPT !.cleanup =
                               NextUser(IF pass.domainName = Null THEN pass
                                        ELSE [pass EXCEPT !.releasedDomains =
                                                Append(@, ValueOf(pass.domainName))])]
                /\ activity' = removeFromActivityTracking(activity, userId)
      /\ UNCHANGED <<now, store, registeredAt, last, docs, pending, log>>

\* the pass returns its summary
cleanupReturn ==
  LET pass == tasks.cleanup IN
  /\ pass.pc = "return"
  /\ tasks' = [tasks EXCEPT !.cleanup.pc = "done"]
  /\ last' = Done("runCleanup", "", <<>>, "ok",
                  [releasedCount |-> Len(pass.releasedDomains),
                   domains |-> pass.releasedDomains])
  /\ UNCHANGED <<now, store, activity, registeredAt, docs, pending, log>>

PassInit ==
  /\ now = 0
  /\ store = [k \in {getRoutesKey(u) : u \in RegistryUsers} |-> Null]
  /\ activity = [u \in RegistryUsers |-> NoScore]
  /\ registeredAt = [u \in RegistryUsers |-> <<>>]
  /\ last = Done("init", "", <<>>, "ok", Null)
  /\ docs = [u \in RegistryUsers |-> Null]
  /\ pending = Null
  /\ http = NoExchange
  /\ caCert = Null
  /\ caKey = Null
  /\ caCertPem = EmptyText
  /\ files = NoFiles
  /\ startup = "serving"
  /\ log = <<>>
  /\ tasks = [cleanup |-> IdlePass]

PassNext ==
  \/ cleanupStart /\ UNCHANGED <<http, caVars, startup>>
  \/ \E rejects \in BOOLEAN :
       cleanupGetUserDomain(rejects) /\ UNCHANGED <<http, caVars, startup>>
  \/ \E rejects \in BOOLEAN :
       cleanupGetActivityTimestamp(rejects) /\ UNCHANGED <<http, caVars, startup>>
  \/ \E rejects \in BOOLEAN :
       cleanupClearDomainAssignment(rejects) /\ UNCHANGED <<http, caVars, startup>>
  \/ \E rejects \in BOOLEAN :
       cleanupRemoveFromActivityTracking(rejects) /\ UNCHANGED <<http, caVars, startup>>
  \/ cleanupReturn /\ UNCHANGED <<http, caVars, startup>>
  \/ \E userId \in RegistryUsers, domainData \in PassUpdates :
       updateUserDomain(userId, domainData) /\ UNCHANGED <<http, caVars, startup, log, tasks>>
  \/ \E userId \in RegistryUsers :
       registerRoutes(userId, <<DeviceRoute>>)
         /\ UNCHANGED <<http, caVars, startup, log, tasks>>
  \/ DayPasses /\ UNCHANGED <<http, caVars, startup, log, tasks>>

PassSpec == PassInit /\ [][PassNext]_vars

\* ------------------------------------------------------------------ concurrent upserts

\* up to await getDomain(domainName): validation and the ownership query
updateUserDomainGetDomain(task, userId, domainData) ==
  LET error == UpdateUserDomainError(userId, domainData) IN
  /\ tasks[task].pc = "idle"
  /\ tasks' = [tasks EXCEPT ![task] =
                 [pc |-> IF error = "ok" THEN "set" ELSE "done", userId |-> userId,
                  domainData |-> domainData, error |-> error]]
  /\ IF error = "ok" THEN UNCHANGED last
     ELSE last' = Done("updateUserDomain", userId, domainData, error, Null)
  /\ UNCHANGED <<now, store, activity, registeredAt, docs, pending>>

\* up to await userDocRef.set(cleanedData, {merge: true}), and the call returns
updateUserDomainSet(task) ==
  LET call == tasks[task] IN
  /\ call.pc = "set"
  /\ docs' = SetMerge(docs, call.userId, call.domainData)
  /\ tasks' = [tasks EXCEPT ![task].pc = "done"]
  /\ last' = Done("updateUserDomain", call.userId, call.domainData, "ok", Null)
  /\ UNCHANGED <<now, store, activity, registeredAt, pending>>

UpsertInit ==
  /\ now = 0
  /\ store = [k \in {getRoutesKey(u) : u \in RegistryUsers} |-> Null]
  /\ activity = [u \in RegistryUsers |-> NoScore]
  /\ registeredAt = [u \in RegistryUsers |-> <<>>]
  /\ last = Done("init", "", <<>>, "ok", Null)
  /\ docs = [u \in RegistryUsers |-> Null]
  /\ pending = Null
  /\ http = NoExchange
  /\ caCert = Null
  /\ caKey = Null
  /\ caCertPem = EmptyText
  /\ files = NoFiles
  /\ startup = "serving"
  /\ log = <<>>
  /\ tasks = [t \in Tasks |-> Idle]

UpsertNext ==
  \/ \E task \in Tasks, userId \in RegistryUsers, domainData \in DomainUpdates :
       updateUserDomainGetDomain(task, userId, domainData)
         /\ UNCHANGED <<http, caVars, startup, log>>
  \/ \E task \in Tasks : updateUserDomainSet(task) /\ UNCHANGED <<http, caVars, startup, log>>

UpsertSpec == UpsertInit /\ [][UpsertNext]_vars

\* ------------------------------------------------------------------ leases of two users

\* what the two users register: a route of the agent, a route of the tunnel,
\* both, or an empty batch
LeaseBatches == {<<>>, <<AgentRoute>>, <<TunnelRoute>>, <<AgentRoute, TunnelRoute>>}

LeaseNext ==
  \/ \E userId \in RegistryUsers \cup {""}, routes \in LeaseBatches :
       registerRoutes(userId, routes) /\ UNCHANGED <<http, caVars, startup, log, tasks>>
  \/ \E userId \in RegistryUsers \cup {""} :
       deleteRoutes(userId) /\ UNCHANGED <<http, caVars, startup, log, tasks>>
  \/ Tick /\ UNCHANGED <<http, caVars, startup, log, tasks>>

LeaseSpec == RegistryInit /\ [][LeaseNext]_vars

\* ------------------------------------------------------------------ claims

\* the TTL the deployment configures: ROUTES_TTL_SECONDS, 600 when not set
ConfiguredTtl == IF RoutesTtlSeconds > 0 THEN RoutesTtlSeconds ELSE 600

AllSources == Sources \cup {Undef}

SeqToSet(seq) == {seq[i] : i \in 1..Len(seq)}

WithSource(routes, s) == SelectSeq(routes, LAMBDA r : SourceOf(r) = s)

\* a batch with duplicates collapsed: of the routes with one key only the last
\* occurrence stays, the order of the others is kept
RECURSIVE DedupLast(_)
DedupLast(routes) ==
  IF routes = <<>> THEN <<>>
  ELSE IF \E j \in 2..Len(routes) : getRouteKey(routes[j]) = getRouteKey(Head(routes))
    THEN DedupLast(Tail(routes))
    ELSE <<Head(routes)>> \o DedupLast(Tail(routes))

RegisterSucceeded(call) == call.op = "registerRoutes" /\ call.error = "ok"

\* the time of the last successful register of a user, NoScore when there is none
LastRegistered(u) ==
  CHOOSE t \in {registeredAt[u][s] : s \in AllSources} :
    \A s \in AllSources : registeredAt[u][s] <= t

\* C1: after a successful register whose routes all carry source s, the routes
\* of the user tagged s are exactly the deduplicated routes of that batch: no
\* route of the earlier lease of s survives.
C1_SameSourceReplaces ==
  RegisterSucceeded(last) =>
    \A s \in AllSources :
      IncomingSources(last.routes) = {s} =>
        SeqToSet(WithSource(RoutesOf(last.userId), s)) = SeqToSet(DedupLast(last.routes))

\* agent registered before, agent registers another ip: only the new route is left
C1_Witness ==
  /\ RegisterSucceeded(last)
  /\ "agent" \in last.had
  /\ last.routes = <<[ip |-> "2.2.2.2", port |-> 443, priority |-> 1, source |-> "agent"]>>
  /\ RoutesOf(last.userId) = last.routes

\* C5: once the configured TTL has passed since the last successful register of
\* a user, getRoutes answers null and getRoutesTTL answers -2.
C5_ExpiredAfterTtl ==
  \A u \in Users :
    (LastRegistered(u) # NoScore /\ now >= LastRegistered(u) + ConfiguredTtl) =>
      (getRoutes(u) = Null /\ getRoutesTTL(u) = -2)

\* a register at time 0 and nothing but the clock until the TTL has passed
C5_Witness ==
  \E u \in Users :
    /\ LastRegistered(u) = 0
    /\ now = ConfiguredTtl
    /\ last.op = "tick"
    /\ getRoutes(u) = Null
    /\ getRoutesTTL(u) = -2

\* C8: deleteRoutes succeeds for a user with or without routes; afterwards
\* getRoutes is null and getRoutesTTL is -2, and deleting again succeeds and
\* changes nothing.
C8_DeleteIdempotent ==
  \A u \in Users :
    (last.op = "deleteRoutes" /\ last.userId = u) =>
      /\ last.error = "ok"
      /\ getRoutes(u) = Null
      /\ getRoutesTTL(u) = -2
      /\ ~ENABLED (deleteRoutes(u) /\ (last'.error # "ok" \/ store' # store
                                        \/ activity' # activity))

\* routes were stored, and the delete removed them
C8_Witness ==
  /\ last.op = "deleteRoutes"
  /\ last.userId \in Users
  /\ last.had # {}
  /\ getRoutes(last.userId) = Null

\* the Redis keys that hold routes of a user
KeysOf(u) == {k \in RouteKeys : k = getRoutesKey(u) /\ store[k] # Null}

MinOf(S) == CHOOSE x \in S : \A y \in S : x <= y

\* C9: getRoutesTTL is -2 exactly when the user has no route key; otherwise it
\* is the least remaining TTL of the user's keys, positive and at most the
\* configured TTL.
C9_TtlSentinel ==
  \A u \in Users :
    /\ getRoutesTTL(u) = -2 <=> KeysOf(u) = {}
    /\ KeysOf(u) # {} =>
         /\ getRoutesTTL(u) = MinOf({RedisTtl(store, k) : k \in KeysOf(u)})
         /\ getRoutesTTL(u) >= 1
         /\ getRoutesTTL(u) <= ConfiguredTtl

\* a lease one second before its end
C9_Witness ==
  \E u \in Users : hasRoutes(u) /\ now > 0 /\ getRoutesTTL(u) = 1

\* every route of the batch names its source
AllSourced(routes) == \A i \in 1..Len(routes) : Has(routes[i], "source")

\* no batch without a source was ever registered for the user
OnlySourced(u) == registeredAt[u][Undef] = NoScore

\* C2: a successful register leaves every stored route whose source does not
\* occur in the batch present and unchanged, whatever the ip, port, scheme,
\* type and domain of the routes of the batch.  (Stated for batches and stored
\* routes that all name their source.)
C2_OtherSourcesUntouched ==
  [][\A u \in Users :
       (/\ RegisterSucceeded(last') /\ last'.userId = u
        /\ AllSourced(last'.routes) /\ OnlySourced(u)) =>
         \A r \in SeqToSet(RoutesOf(u)) :
           SourceOf(r) \notin IncomingSources(last'.routes) =>
             r \in SeqToSet(RoutesOf(u)')]_vars

\* C3: the routes of a source are no longer returned once the configured TTL
\* has passed since the last successful register that contained that source,
\* also when another source registered in the meantime.
C3_LeaseExpiresPerSource ==
  \A u \in Users, s \in Sources :
    (/\ OnlySourced(u)
     /\ registeredAt[u][s] # NoScore
     /\ now >= registeredAt[u][s] + ConfiguredTtl) =>
      WithSource(RoutesOf(u), s) = <<>>

\* the seconds for which getRoutes will still answer a route
RemainingLife(u, r) == IF r \in SeqToSet(RoutesOf(u)) THEN getRoutesTTL(u) ELSE 0

\* C4: a successful register never reduces the remaining lifetime of a route
\* held under a source that does not occur in the batch.
C4_OtherLifetimesNotReduced ==
  [][\A u \in Users :
       (/\ RegisterSucceeded(last') /\ last'.userId = u
        /\ AllSourced(last'.routes) /\ OnlySourced(u)) =>
         \A r \in ValidRoutes :
           SourceOf(r) \notin IncomingSources(last'.routes) =>
             RemainingLife(u, r)' >= RemainingLife(u, r)]_vars

\* C6: a batch registered for a user without stored routes is returned with
\* duplicates collapsed per source: the routes tagged s are the deduplicated
\* routes of s in the batch, and routes with one key under two sources both stay.
C6_DedupPerSource ==
  (RegisterSucceeded(last) /\ last.had = {} /\ AllSourced(last.routes)) =>
    \A s \in Sources :
      WithSource(RoutesOf(last.userId), s) = DedupLast(WithSource(last.routes, s))

\* C7: registering the same batch twice in a row leaves getRoutes as the first
\* call left it, routes and order, and sets the TTL back to the configured value.
C7_ReRegisterIdempotent ==
  [][\A u \in Users :
       (/\ RegisterSucceeded(last) /\ RegisterSucceeded(last')
        /\ last.userId = u /\ last'.userId = u
        /\ last'.routes = last.routes
        /\ AllSourced(last.routes) /\ OnlySourced(u)) =>
         (getRoutes(u)' = getRoutes(u) /\ getRoutesTTL(u)' = ConfiguredTtl)]_vars

\* C10: register rejects a batch in which a route has no source field.
C10_SourceRequired ==
  (last.op = "registerRoutes"
     /\ \E i \in 1..Len(last.routes) : ~Has(last.routes[i], "source")) =>
    last.error # "ok"

\* a route the validation is to refuse: no ip, a port outside 1..65535, or a
\* priority that is not a number
Malformed(route) ==
  \/ ~Has(route, "ip")
  \/ ~Has(route, "port")
  \/ route.port \notin 1..65535
  \/ ~Has(route, "priority")

\* C11: a register whose batch holds a malformed route is rejected and leaves
\* the stored routes, their TTL and the activity entry as they were, whatever
\* the other routes of the batch; a batch of routes with ip, numeric priority
\* and a port from 1 to 65535 is accepted.
C11_InvalidBatchRejected ==
  [][last'.op = "registerRoutes" =>
       /\ (\E i \in 1..Len(last'.routes) : Malformed(last'.routes[i])) =>
            (last'.error # "ok" /\ store' = store /\ activity' = activity)
       /\ (/\ last'.userId # ""
           /\ last'.routes # <<>>
           /\ \A i \in 1..Len(last'.routes) : ~Malformed(last'.routes[i])) =>
            last'.error = "ok"]_vars

\* routes are stored, and a batch of the route on port 1 followed by the route
\* on port 65536 has been rejected
C11_Witness ==
  /\ last.op = "registerRoutes"
  /\ last.error = "Route port must be between 1 and 65535."
  /\ Len(last.routes) = 2
  /\ last.routes[1].port = 1
  /\ last.routes[2].port = 65536
  /\ \E u \in Users : hasRoutes(u) /\ getRoutesTTL(u) = 1 /\ activity[u] # NoScore

\* C12: register rejects every route whose ip is not an IPv4 or IPv6 literal,
\* so that every stored route has an ip that is one.
C12_OnlyIpLiterals ==
  /\ (last.op = "registerRoutes"
        /\ \E i \in 1..Len(last.routes) : ~isValidIpAddress(last.routes[i].ip)) =>
       last.error # "ok"
  /\ \A u \in Users : \A r \in SeqToSet(RoutesOf(u)) : isValidIpAddress(r.ip)

\* the users whose identity record holds the label
OwnersOf(label) == DocsWithDomain(docs, label)

\* C14: no two identity records have the same domainName, in every state that
\* upsert, delete, clearDomainAssignment and cleanup reach.
C14_DomainNameUnique ==
  \A label \in RegistryLabels : Cardinality(OwnersOf(label)) <= 1

\* the record of u1 has lost its label and u2 has taken the label alice
C14_Witness ==
  /\ last.op = "updateUserDomain" /\ last.error = "ok" /\ last.userId = "u2"
  /\ last.arg.domainName = "alice"
  /\ docs["u1"] = Some(<<>>)
  /\ OwnersOf("alice") = {"u2"}

\* C15: updateUserDomain for a label that another user owns throws "not owned"
\* and writes nothing: the owner keeps the label and the caller's record is as
\* it was, publicKey included.
C15_NotOwnedWritesNothing ==
  [][\A caller \in RegistryUsers, label \in RegistryLabels :
       (/\ last'.op = "updateUserDomain"
        /\ last'.userId = caller
        /\ last'.arg.domainName = label
        /\ OwnersOf(label) # {}
        /\ caller \notin OwnersOf(label)) =>
         /\ last'.error = "Domain name is not owned by you."
         /\ docs' = docs]_vars

\* u2 holds a record with another key and asked for the label of u1
C15_Witness ==
  /\ last.op = "updateUserDomain"
  /\ last.userId = "u2"
  /\ last.error = "Domain name is not owned by you."
  /\ OwnersOf(last.arg.domainName) = {"u1"}
  /\ docs["u2"] # Null
  /\ ValueOf(docs["u2"]).publicKey # last.arg.publicKey

\* the threshold the deployment configures, in days: INACTIVE_DOMAIN_DAYS, 30
\* when not set
ConfiguredInactiveDays == IF InactiveDomainDays > 0 THEN InactiveDomainDays ELSE 30

\* the user's activity score is at or below now minus the threshold
Inactive(u) ==
  activity[u] # NoScore /\ activity[u] <= now - ConfiguredInactiveDays * 86400

\* the user's identity record has a non-empty domainName
HasLabel(u) == docs[u] # Null /\ Truthy(ValueOf(docs[u]), "domainName")

LabelOf(u) == ValueOf(docs[u]).domainName

C20_CleanupIdempotent ==
  last.op = "runCleanup" =>
    ~ENABLED (/\ runCleanup
              /\ \/ last'.result # [releasedCount |-> 0, domains |-> <<>>]
                 \/ docs' # docs
                 \/ activity' # activity)

\* the first run released the labels of both users
C20_Witness ==
  /\ last.op = "runCleanup"
  /\ last.result.releasedCount = 2
  /\ \A u \in RegistryUsers : docs[u] = Some(<<>>) /\ activity[u] = NoScore

\* a POST /routes that was answered 200
PostedRoutes(exchange) == exchange.path = "/routes" /\ exchange.status = 200

\* C13: a successful POST /routes stores and echoes every route of the body
\* with its source, scheme, type and domain as submitted, and the routes of an
\* earlier successful POST that carried other sources stay visible in getRoutes.
C13_PostKeepsSource ==
  [][\A u \in Users :
       (PostedRoutes(http') /\ http'.userid = u) =>
         /\ http'.answer.routes = http'.body
         /\ \A i \in 1..Len(http'.body) : http'.body[i] \in SeqToSet(RoutesOf(u)')
         /\ (/\ PostedRoutes(http)
             /\ http.userid = u
             /\ IncomingSources(http.body) \cap IncomingSources(http'.body) = {}) =>
              \A i \in 1..Len(http.body) : http.body[i] \in SeqToSet(RoutesOf(u)')]_vars

\* C16: no identity record has a domainName among root, app and www.
C16_NoReservedLabel ==
  \A u \in DOMAIN docs :
    (docs[u] # Null /\ Has(ValueOf(docs[u]), "domainName")) =>
      ValueOf(docs[u]).domainName \notin {"root", "app", "www"}

\* the rules of a label: not empty, at most 63 characters, lowercase letters
\* and digits only
WellFormedLabel(label) ==
  /\ label # ""
  /\ Len(label) <= 63
  /\ \A i \in 1..Len(label) :
       SubSeq(label, i, i) \in LowerCaseLetters \cup Digits

\* C17: checkDomainAvailability answers available exactly for a well-formed
\* label that is not reserved and that no record holds; syntax is judged
\* first (a malformed label gets the message of the rule it breaks, a reserved
\* or taken one "not available"), and the call changes no state.
C17_AvailabilityRules ==
  [][last'.op = "checkDomainAvailability" =>
       LET label == last'.arg
           syntaxMessages ==
             {"Domain name cannot be longer than 63 characters.",
              "Domain name can only contain lowercase letters and numbers."}
       IN  /\ (last'.error = "ok" /\ last'.result.available) <=>
                (/\ WellFormedLabel(label)
                 /\ label \notin {"root", "app", "www"}
                 /\ OwnersOf(label) = {})
           /\ label # "" => last'.error = "ok"
           /\ (label # "" /\ ~WellFormedLabel(label)) =>
                last'.result.message \in syntaxMessages
           /\ (WellFormedLabel(label)
                 /\ (label \in {"root", "app", "www"} \/ OwnersOf(label) # {})) =>
                last'.result.message = "Domain name is not available."
           /\ docs' = docs /\ store' = store /\ activity' = activity /\ now' = now]_vars

\* the label of 63 characters is available while alice is taken
C17_Witness ==
  /\ last.op = "checkDomainAvailability"
  /\ last.arg = Label63
  /\ last.result.available
  /\ OwnersOf("alice") # {}

\* C18: the activity score of a user changes only when a register for that
\* user completes, after its routes were written, and becomes the time of
\* that moment, which is not before the call began; every successful register
\* sets it, it never decreases, and a rejected register leaves it unchanged.
C18_ActivityAfterCommit ==
  [][/\ \A u \in Users :
          /\ activity'[u] >= activity[u]
          /\ activity'[u] # activity[u] =>
               /\ pending # Null
               /\ ValueOf(pending).userId = u
               /\ RegisterSucceeded(last') /\ last'.userId = u
               /\ activity'[u] = now
               /\ activity'[u] >= ValueOf(pending).time
     /\ (RegisterSucceeded(last') /\ last' # last) =>
          activity'[last'.userId] = now
     /\ (last'.op = "registerRoutes" /\ last'.error # "ok") =>
          activity' = activity]_vars

\* a register of agent has completed at second 2, over the score that the
\* register of tunnel left at second 0
C18_Witness ==
  /\ RegisterSucceeded(last)
  /\ pending = Null
  /\ now = 2
  /\ activity[last.userId] = 2
  /\ registeredAt[last.userId]["agent"] = 2
  /\ registeredAt[last.userId]["tunnel"] = 0

\* C21: after a cleanup pass has released label L, getDomain(L) is null,
\* checkDomainAvailability(L) reports available, and an upsert of L by any
\* user other than the one it was released from succeeds.
C21_ReleasedLabelIsFree ==
  last.op = "runCleanup" =>
    \A label \in SeqToSet(last.result.domains) :
      /\ getDomain(label) = Null
      /\ ~ENABLED (/\ checkDomainAvailability(label)
                   /\ ~(last'.error = "ok" /\ last'.result.available))
      /\ \A userId \in RegistryUsers, domainData \in ReleaseUpdates :
           domainData.domainName = label =>
             ~ENABLED (/\ updateUserDomain(userId, domainData)
                       /\ ~(last'.error = "ok" /\ OwnersOf(label)' = {userId}))

\* the record of u exists before and after the step, has lost at most
\* domainName and publicKey, and keeps the value of every other field
KeepsOtherFields(u) ==
  /\ docs[u] # Null
  /\ docs'[u] # Null
  /\ DOMAIN ValueOf(docs'[u]) = DOMAIN ValueOf(docs[u]) \ {"domainName", "publicKey"}
  /\ \A f \in DOMAIN ValueOf(docs'[u]) : ValueOf(docs'[u])[f] = ValueOf(docs[u])[f]

\* C22: clearDomainAssignment(u) removes only domainName and publicKey: the
\* record of u still exists with all its other fields as they were and no
\* other record changes; a cleanup pass does the same to every user it
\* releases, leaves every other record alone and creates or deletes none.
C22_ClearKeepsRecord ==
  [][/\ \A u \in RegistryUsers :
          (/\ last'.op = "clearDomainAssignment"
           /\ last'.userId = u
           /\ last'.error = "ok") =>
            /\ KeepsOtherFields(u)
            /\ \A v \in RegistryUsers \ {u} : docs'[v] = docs[v]
     /\ last'.op = "runCleanup" =>
          \A u \in RegistryUsers :
            IF HasLabel(u) /\ LabelOf(u) \in SeqToSet(last'.result.domains)
              THEN KeepsOtherFields(u)
              ELSE docs'[u] = docs[u]]_vars

\* the pass released alice from u1, whose record keeps the heartbeat of day 0,
\* while u2 keeps its label
C22_Witness ==
  /\ last.op = "runCleanup"
  /\ last.result.domains = <<"alice">>
  /\ docs["u1"] = Some([lastSeenOnline |-> 0])
  /\ HasLabel("u2")

\* a call of the iteration of u rejects under faults
Threw(u, faults) ==
  \/ faults[u] \in {"getUserDomain", "removeFromActivityTracking"}
  \/ HasLabel(u) /\ faults[u] \in {"getActivityTimestamp", "clearDomainAssignment"}

\* C23: a cleanup pass returns normally whatever calls reject; the label of a
\* user for whom a call rejected is not among the returned domains, and every
\* other inactive user is processed: it leaves the activity set and, when it
\* holds a label, the label is released and returned.
C23_CleanupSurvivesFailure ==
  [][last'.op = "runCleanup" =>
       /\ last'.error = "ok"
       /\ last'.result.releasedCount = Len(last'.result.domains)
       /\ \A u \in RegistryUsers, faults \in Faults :
            (Inactive(u) /\ last'.arg = faults) =>
              IF Threw(u, faults)
                THEN HasLabel(u) => LabelOf(u) \notin SeqToSet(last'.result.domains)
                ELSE /\ activity'[u] = NoScore
                     /\ HasLabel(u) =>
                          /\ LabelOf(u) \in SeqToSet(last'.result.domains)
                          /\ docs'[u] # Null
                          /\ ~Has(ValueOf(docs'[u]), "domainName")]_vars

\* clearDomainAssignment rejected for u1, first in the pass, and the label of
\* u2 was released all the same
C23_Witness ==
  /\ last.op = "runCleanup"
  /\ last.arg["u1"] = "clearDomainAssignment"
  /\ last.arg["u2"] = "none"
  /\ HasLabel("u1")
  /\ activity["u1"] # NoScore
  /\ last.result.releasedCount = 1
  /\ docs["u2"] = Some(<<>>)
  /\ activity["u2"] = NoScore

\* the step answers a request of this method and path
Answers(method, path) == http'.method = method /\ http'.path = path

\* the bodies sent to POST /routes and to POST /cert
SentRoutes == {<<>>, <<AgentRoute>>}

SentCertBodies == {<<>>, [csr |-> GoodCsr]}

\* the signature does not authenticate userid: it does not parse, or it does
\* not verify under the public key of the record
Denied(userid, sig) ==
  /\ getUserDomain(userid) # Null
  /\ verifySignature(PublicKeyOf(getUserDomain(userid)), sig, userid) # "valid"

\* the step wrote nothing and issued nothing
NothingWritten ==
  /\ store' = store
  /\ activity' = activity
  /\ docs' = docs
  /\ last' = last
  /\ ~Has(http'.answer, "certificate")

\* the status a request of userid signed sig must get, and nothing is written
RefusedAs(userid, sig) ==
  /\ getUserDomain(userid) = Null => (http'.status = 404 /\ NothingWritten)
  /\ Denied(userid, sig) => (http'.status = 401 /\ NothingWritten)

\* C24 as stated: on POST /routes, DELETE /routes, POST /heartbeat and
\* POST /cert, every request of a user without record is answered 404 and
\* every request whose signature is malformed or does not verify is answered
\* 401, and nothing is written.
C24_UnknownOrDeniedAlways ==
  [][\A userid \in Users, sig \in Signatures :
       (\/ /\ Answers("POST", "/routes")
           /\ \E routes \in SentRoutes : postRoutes(userid, sig, routes)
        \/ Answers("DELETE", "/routes") /\ deleteRoutesOf(userid, sig)
        \/ Answers("POST", "/heartbeat") /\ postHeartbeat(userid, sig)
        \/ /\ Answers("POST", "/cert")
           /\ \E body \in SentCertBodies : postCert(userid, sig, body)) =>
         RefusedAs(userid, sig)]_vars

\* C24: DELETE /routes and POST /heartbeat, POST /routes with a non-empty
\* routes array and POST /cert with the CA initialized and a csr in the body
\* answer 404 to a user without record and 401 to a signature that is
\* malformed or does not verify; POST /routes without routes answers 400 and
\* POST /cert answers 503 before the CA is initialized and 400 without csr,
\* whoever asks; none of these requests writes to the route store, the
\* activity set or the identity store, creates a record or issues a certificate.
C24_UnknownOrDenied ==
  [][\A userid \in Users, sig \in Signatures :
       /\ (\/ /\ Answers("POST", "/routes")
              /\ \E routes \in SentRoutes \ {<<>>} : postRoutes(userid, sig, routes)
           \/ Answers("DELETE", "/routes") /\ deleteRoutesOf(userid, sig)
           \/ Answers("POST", "/heartbeat") /\ postHeartbeat(userid, sig)
           \/ /\ Answers("POST", "/cert")
              /\ \E body \in SentCertBodies :
                   isCAInitialized /\ Has(body, "csr") /\ postCert(userid, sig, body)) =>
            RefusedAs(userid, sig)
       /\ (Answers("POST", "/routes") /\ postRoutes(userid, sig, <<>>)) =>
            (http'.status = 400 /\ NothingWritten)
       /\ \A body \in SentCertBodies :
            (Answers("POST", "/cert") /\ postCert(userid, sig, body)) =>
              /\ ~isCAInitialized => (http'.status = 503 /\ NothingWritten)
              /\ (isCAInitialized /\ ~Has(body, "csr")) =>
                   (http'.status = 400 /\ NothingWritten)]_vars

\* a certificate request under a signature made with another key was denied
\* while the CA was ready and the user held routes
C24_Witness ==
  /\ http.path = "/cert"
  /\ http.status = 401
  /\ caCert # Null
  /\ Has(http.body, "csr")
  /\ docs["u1"] # Null
  /\ RoutesOf("u1") # <<>>

\* the answer of the mutating endpoints to a signature that fails
InvalidSignature(exchange) ==
  exchange.status = 401 /\ exchange.answer = [error |-> "Invalid signature."]

\* C25: on GET /verify, POST /routes, DELETE /routes, POST /heartbeat and
\* POST /cert, in every state, a request whose signature does not parse and
\* the same request with a signature that parses and does not verify get the
\* same response and leave the same state; where the user has a record and
\* the body passed its checks the response is 401 "Invalid signature.", and
\* 200 {valid: false} on GET /verify.
C25_SameAnswerToBadSignatures ==
  \A userid \in Users, sig \in Signatures \ {MalformedSignature} :
    (getUserDomain(userid) = Null \/ Denied(userid, sig)) =>
      /\ ENABLED (getVerify(userid, MalformedSignature) /\ getVerify(userid, sig))
      /\ ENABLED (deleteRoutesOf(userid, MalformedSignature) /\ deleteRoutesOf(userid, sig))
      /\ ENABLED (postHeartbeat(userid, MalformedSignature) /\ postHeartbeat(userid, sig))
      /\ \A routes \in SentRoutes :
           ENABLED (postRoutes(userid, MalformedSignature, routes)
                      /\ postRoutes(userid, sig, routes))
      /\ \A body \in SentCertBodies :
           ENABLED (postCert(userid, MalformedSignature, body) /\ postCert(userid, sig, body))
      /\ Denied(userid, sig) =>
           /\ ENABLED (getVerify(userid, sig)
                         /\ http'.status = 200 /\ http'.answer = [valid |-> FALSE])
           /\ ENABLED (deleteRoutesOf(userid, sig) /\ InvalidSignature(http'))
           /\ ENABLED (postHeartbeat(userid, sig) /\ InvalidSignature(http'))
           /\ ENABLED (postRoutes(userid, sig, <<AgentRoute>>) /\ InvalidSignature(http'))
           /\ isCAInitialized =>
                ENABLED (postCert(userid, sig, [csr |-> GoodCsr]) /\ InvalidSignature(http'))

\* GET /verify has answered {valid: false} to a user whose record holds a
\* public key
C25_Witness ==
  /\ http.path = "/verify"
  /\ Has(http.answer, "valid")
  /\ docs["u1"] # Null
  /\ Has(ValueOf(docs["u1"]), "publicKey")
  /\ Denied("u1", Signature("P2", "u1"))

\* C26: GET /resolve/v2/{label} answers 404 for every label that, lower-cased,
\* is the domainName of no record, and otherwise 200 with the owner's userId,
\* the routes getRoutes gives for the owner ([] for null) and routesTtl =
\* getRoutesTTL(owner).
C26_ResolveAnswers ==
  [][\A param \in ResolveInputs, label \in {toLowerCase(p) : p \in ResolveInputs} :
       (/\ Answers("GET", "/resolve/v2")
        /\ getResolveV2(param)
        /\ label = toLowerCase(param)) =>
         IF OwnersOf(label) = {}
           THEN http'.status = 404
           ELSE /\ http'.status = 200
                /\ http'.answer.userId \in OwnersOf(label)
                /\ http'.answer.routes = RoutesOf(http'.answer.userId)
                /\ http'.answer.routesTtl = getRoutesTTL(http'.answer.userId)]_vars

\* C27: a successful heartbeat of u sets lastSeenOnline of u's record to the
\* time of the call and changes nothing else: the other fields of the record,
\* the other records, the route leases and the activity set are as they were;
\* a heartbeat of a user without record fails and creates no record.
C27_HeartbeatFrame ==
  [][\A u \in RegistryUsers :
       (last'.op = "updateHeartbeat" /\ last'.userId = u) =>
         /\ store' = store
         /\ activity' = activity
         /\ \A v \in RegistryUsers \ {u} : docs'[v] = docs[v]
         /\ IF docs[u] = Null
              THEN last'.error # "ok" /\ docs'[u] = Null
              ELSE /\ last'.error = "ok"
                   /\ docs'[u] # Null
                   /\ DOMAIN ValueOf(docs'[u]) = DOMAIN ValueOf(docs[u]) \cup {"lastSeenOnline"}
                   /\ ValueOf(docs'[u]).lastSeenOnline = now
                   /\ \A f \in DOMAIN ValueOf(docs[u]) \ {"lastSeenOnline"} :
                        ValueOf(docs'[u])[f] = ValueOf(docs[u])[f]]_vars

\* on the second day u1, which holds alice, a key, routes and an activity
\* entry, was stamped
C27_Witness ==
  /\ last.op = "updateHeartbeat"
  /\ last.userId = "u1"
  /\ now = DayLength
  /\ docs["u1"] = Some([domainName |-> "alice", publicKey |-> "P1",
                        lastSeenOnline |-> DayLength])
  /\ hasRoutes("u1")
  /\ activity["u1"] = DayLength
  /\ docs["u2"] # Null

\* the record of u has a lastSeenOnline that is at most threshold seconds old
SeenWithin(u, threshold) ==
  /\ Has(ValueOf(docs[u]), "lastSeenOnline")
  /\ now - ValueOf(docs[u]).lastSeenOnline <= threshold

\* C28: checkOnlineStatus(u) fails with "User not found." when u has no
\* record, and otherwise reports online exactly when the record has a
\* lastSeenOnline at most the threshold old (120 seconds unless another is
\* passed, 120 itself included), offline without lastSeenOnline; GET /status
\* answers 404 in the first case and 200 with that report in the second, and
\* neither changes anything.
C28_OnlineStatus ==
  [][\A u \in Users :
       /\ (last'.op = "checkOnlineStatus" /\ last'.userId = u) =>
            /\ docs' = docs /\ store' = store /\ activity' = activity
            /\ IF docs[u] = Null THEN last'.error = "User not found."
               ELSE /\ last'.error = "ok"
                    /\ \A threshold \in Thresholds :
                         last'.arg = threshold =>
                           (last'.result.online <=> SeenWithin(u, threshold))
                    /\ ~Has(ValueOf(docs[u]), "lastSeenOnline") => ~last'.result.online
       /\ (Answers("GET", "/status") /\ getStatus(u)) =>
            IF docs[u] = Null THEN http'.status = 404
            ELSE /\ http'.status = 200
                 /\ http'.answer.online <=> SeenWithin(u, 120)]_vars

\* the default threshold was used 120 seconds after the heartbeat: online
C28_Witness ==
  /\ last.op = "checkOnlineStatus"
  /\ last.error = "ok"
  /\ last.arg = 120
  /\ last.result.online
  /\ now - ValueOf(last.result.lastSeenOnline) = 120
  /\ http.path = "/status"
  /\ http.status = 200
  /\ http.answer.online

\* C29: signCSR throws "not initialized" before the CA is loaded, else
\* "Invalid CSR format" for a text that does not parse, else "CSR signature
\* verification failed" when the self-signature does not verify, else the
\* common name message when the CN is not the userId, and only otherwise
\* issues a certificate, whose subject CN is the userId; every certificate
\* that POST /cert returns has the CN of the user id of the request, which
\* has a record.
C29_CertificateForAuthenticatedUser ==
  [][/\ \A csr \in Csrs, userId \in Users :
          (/\ last'.op = "signCSR"
           /\ last'.userId = userId
           /\ last'.arg.csr = csr) =>
            IF caCert = Null
              THEN last'.error = "Certificate Authority not initialized"
            ELSE IF csr = GarbagePem THEN last'.error = "Invalid CSR format"
            ELSE IF ~csr.verifies THEN last'.error = "CSR signature verification failed"
            ELSE IF csr.subject # [CN |-> userId]
              THEN /\ last'.error # "ok"
                   /\ Includes(last'.error, "CSR Common Name")
                   /\ Includes(last'.error, "does not match userId (" \o userId \o ")")
            ELSE /\ last'.error = "ok"
                 /\ last'.result.certificate.subject.CN = userId
     /\ (Answers("POST", "/cert") /\ Has(http'.answer, "certificate")) =>
          /\ http'.status = 200
          /\ http'.answer.certificate.subject = [CN |-> http'.userid]
          /\ docs[http'.userid] # Null
          /\ caCert # Null]_vars

\* u1 was issued a certificate
C29_Witness ==
  /\ http.path = "/cert"
  /\ http.status = 200
  /\ http.userid = "u1"
  /\ http.answer.certificate.subject.CN = "u1"
  /\ last.op = "signCSR"
  /\ last.error = "ok"

\* C30: the subjectAltName list of a certificate issued by POST /cert is, in
\* order, DNS:*.<serverDomain> when SERVER_DOMAIN is configured, DNS:*.nip.io,
\* and IP:<publicIp> when the body has a publicIp and no IP entry otherwise.
C30_SubjectAltNames ==
  (http.path = "/cert" /\ http.status = 200) =>
    http.answer.certificate.altNames =
      (IF ServerDomain = "" THEN <<>>
       ELSE <<[type |-> 2, value |-> "*." \o ServerDomain]>>)
        \o <<[type |-> 2, value |-> "*.nip.io"]>>
        \o (IF Has(http.body, "publicIp")
              THEN <<[type |-> 7, ip |-> http.body.publicIp]>>
              ELSE <<>>)

\* the listen callback runs initializeCA in this step
InitializesCA == startup = "listening" /\ startup' # "listening"

\* C31: initializeCA writes a new certificate and key exactly when one of
\* the two files is missing, and then both files hold the generated pair;
\* when both files exist they are left as they are and loaded, so a restart
\* loads the certificate the disk held before; after a successful
\* initializeCA isCAInitialized() is true and getCACertificate() returns the
\* text of the certificate file.
C31_RootCaKeptAcrossRestarts ==
  [][InitializesCA =>
       /\ (files.caCertPath # Null /\ files.caKeyPath # Null) => files' = files
       /\ (files.caCertPath = Null \/ files.caKeyPath = Null) =>
            \E keys \in KeyPairs :
              LET generated == generateRootCA("Mesh Router CA", "NSL.SH", keys)
              IN  files' = [caCertPath |-> Some(generated.cert),
                            caKeyPath |-> Some(generated.key)]
       /\ last'.error = "ok" =>
            /\ isCAInitialized'
            /\ GetCACertificateError' = "ok"
            /\ caCertPem' = ValueOf(files'.caCertPath)
            /\ caCert' = Some(certificateFromPem(ValueOf(files'.caCertPath)))
            /\ caKey' = Some(privateKeyFromPem(ValueOf(files'.caKeyPath)))]_vars

\* a restart found both files and loaded them
C31_Witness ==
  /\ last.op = "initializeCA"
  /\ last.error = "ok"
  /\ last.arg.certExists
  /\ last.arg.keyExists
  /\ isCAInitialized
  /\ caCertPem = ValueOf(files.caCertPath)

\* C38: in every reachable state in which isCAInitialized() is false,
\* getCACertificate() throws "Certificate Authority not initialized"; the
\* states left by an initializeCA that threw while parsing are among them.
C38_NotInitializedRaises ==
  ~isCAInitialized => GetCACertificateError = "Certificate Authority not initialized"

\* a request is handled in this step
HandlesRequest == http' # http \/ docs' # docs \/ last'.op = "signCSR"

\* C39: a request is handled only after the listen callback has completed
\* initializeCA successfully, and handling a request leaves caCert, caKey and
\* caCertPem as initializeCA set them.
C39_CaWrittenOnce ==
  [][HandlesRequest =>
       /\ startup = "serving"
       /\ isCAInitialized
       /\ UNCHANGED <<caCert, caKey, caCertPem>>]_vars

\* GET /ca-cert was answered with the certificate after a certificate was
\* issued
C39_Witness ==
  /\ startup = "serving"
  /\ http.path = "/ca-cert"
  /\ http.status = 200
  /\ http.answer = caCertPem
  /\ last.op = "signCSR"
  /\ last.error = "ok"

\* both calls have returned without throwing
BothRegistered == \A t \in Tasks : tasks[t].pc = "done" /\ tasks[t].error = "ok"

\* the routes of routes that are in the set sources
FromSources(routes, sources) == SelectSeq(routes, LAMBDA r : SourceOf(r) \in sources)

Contains(routes, route) == \E i \in 1..Len(routes) : routes[i] = route

\* C32: once two calls of registerRoutes of one user for batches of different
\* sources have both returned, however their reads and writes of the store
\* were interleaved, getRoutes holds every route of both batches.
C32_SourcesIndependent ==
  \A t1, t2 \in Tasks :
    (/\ BothRegistered
     /\ tasks[t1].userId = tasks[t2].userId
     /\ IncomingSources(tasks[t1].routes) \cap IncomingSources(tasks[t2].routes) = {})
      => \A i \in 1..Len(tasks[t1].routes) :
           Contains(RoutesOf(tasks[t1].userId), tasks[t1].routes[i])

\* C35: once two calls of registerRoutes of one user for batches of the same
\* source have both returned, the routes of that source in getRoutes are the
\* batch of the call that wrote last, and no route of the other batch.
C35_LastWriterWins ==
  \A t1, t2 \in Tasks :
    (/\ BothRegistered
     /\ t1 # t2
     /\ tasks[t1].userId = tasks[t2].userId
     /\ IncomingSources(tasks[t1].routes) = IncomingSources(tasks[t2].routes)
     /\ tasks[t1].wrote > tasks[t2].wrote)
      => FromSources(RoutesOf(tasks[t1].userId), IncomingSources(tasks[t1].routes))
           = tasks[t1].routes

\* two calls for different batches of the agent returned, the one that wrote
\* last having read the store before the other wrote
C35_Witness ==
  /\ BothRegistered
  /\ IncomingSources(tasks["t1"].routes) = {"agent"}
  /\ IncomingSources(tasks["t2"].routes) = {"agent"}
  /\ tasks["t1"].routes # tasks["t2"].routes
  /\ tasks["t1"].wrote > tasks["t2"].wrote
  /\ tasks["t1"].existingRoutes = <<>>
  /\ RoutesOf("u1") = tasks["t1"].routes

\* the user whose iteration the pass is in
PassUser == tasks.cleanup.inactiveUserIds[tasks.cleanup.i]

\* the score of u is newer than the inactivity threshold
Recent(u) == activity[u] # NoScore /\ activity[u] > now - getInactiveDomainDays * DayLength

\* C33: whenever a cleanup pass that runs among registrations clears the
\* label of a user or removes the activity entry of a user, the score of that
\* user is not newer than the inactivity threshold at that moment.
C33_ActiveUserKept ==
  [][\A u \in RegistryUsers :
       (/\ tasks.cleanup.pc \in {"clearDomainAssignment", "removeFromActivityTracking"}
        /\ tasks'.cleanup # tasks.cleanup
        /\ (docs'[u] # docs[u] \/ (activity'[u] = NoScore /\ activity[u] # NoScore)))
         => ~Recent(u)]_vars

\* C34: when upserts of different users for a label interleave their
\* ownership check and their write, at most one of two upserts for the same
\* label succeeds and at most one record holds the label.
C34_UniqueUnderRaces ==
  /\ \A label \in RegistryLabels : Cardinality(OwnersOf(label)) <= 1
  /\ \A t1, t2 \in Tasks :
       (/\ tasks[t1].pc = "done"
        /\ tasks[t2].pc = "done"
        /\ tasks[t1].userId # tasks[t2].userId
        /\ tasks[t1].domainData.domainName = tasks[t2].domainData.domainName)
         => (tasks[t1].error # "ok" \/ tasks[t2].error # "ok")

\* the record of u is absent or has no domainName
LabelLess(u) == docs[u] = Null \/ ~Truthy(ValueOf(docs[u]), "domainName")

\* C36: for an inactive user whose record is absent or has no domainName the
\* pass goes from getUserDomain to removeFromActivityTracking with no label
\* read, and that call removes the activity entry of the user and nothing
\* else: no record is written, no RELEASED line is appended and nothing is
\* added to the domains the pass returns, whose count is releasedCount.
C36_UnlabelledUserOnlyUntracked ==
  [][/\ (/\ tasks.cleanup.pc = "getUserDomain"
         /\ tasks'.cleanup.pc \notin {"getUserDomain", "return"}
         /\ LabelLess(PassUser))
          => /\ tasks'.cleanup.pc = "removeFromActivityTracking"
             /\ tasks'.cleanup.domainName = Null
             /\ UNCHANGED <<docs, log, activity, store>>
     /\ (/\ tasks.cleanup.pc = "removeFromActivityTracking"
         /\ tasks.cleanup.domainName = Null
         /\ tasks'.cleanup # tasks.cleanup)
          => /\ UNCHANGED <<docs, log, store>>
             /\ tasks'.cleanup.releasedDomains = tasks.cleanup.releasedDomains
             /\ \A v \in RegistryUsers \ {PassUser} : activity'[v] = activity[v]
             /\ activity'[PassUser] \in {NoScore, activity[PassUser]}
     /\ (tasks.cleanup.pc = "return" /\ tasks'.cleanup.pc = "done")
          => /\ last'.result.domains = tasks.cleanup.releasedDomains
             /\ last'.result.releasedCount = Len(tasks.cleanup.releasedDomains)
             /\ UNCHANGED <<docs, log, activity, store>>]_vars

\* a pass found u1 inactive and without record, and returned: u1 is tracked
\* no more, has no record, and nothing was released
C36_Witness ==
  /\ tasks.cleanup.pc = "done"
  /\ tasks.cleanup.inactiveUserIds = <<"u1">>
  /\ docs["u1"] = Null
  /\ activity["u1"] = NoScore
  /\ log = <<>>
  /\ last.op = "runCleanup"
  /\ last.result = [releasedCount |-> 0, domains |-> <<>>]

\* the RELEASED lines of the log that name userId
LinesOf(userId) == {k \in 1..Len(log) : log[k].event = "RELEASED" /\ log[k].userId = userId}

\* C37: when a pass clears the label of a user, and when it removes the
\* activity entry of a user whose label it cleared, the log already holds
\* exactly one RELEASED line of this pass for that user and label; and when
\* the pass returns, the labels of its RELEASED lines are, line by line, the
\* domains it returns.
C37_OneLinePerRelease ==
  [][/\ (/\ tasks.cleanup.pc = "clearDomainAssignment"
         /\ docs' # docs)
          => /\ Cardinality(LinesOf(PassUser)) = 1
             /\ \A k \in LinesOf(PassUser) :
                  log[k].domainName = ValueOf(tasks.cleanup.domainName)
     /\ (/\ tasks.cleanup.pc = "removeFromActivityTracking"
         /\ tasks.cleanup.domainName # Null
         /\ activity' # activity)
          => Cardinality(LinesOf(PassUser)) = 1
     /\ (tasks.cleanup.pc = "return" /\ tasks'.cleanup.pc = "done")
          => /\ Len(log) = Len(last'.result.domains)
             /\ \A k \in 1..Len(log) :
                  /\ log[k].event = "RELEASED"
                  /\ log[k].domainName = last'.result.domains[k]]_vars

\* C40: a call of registerRoutes or of deleteRoutes for a user leaves what
\* getRoutes and getRoutesTTL answer for every other user, and the activity
\* score of every other user, as they were.
C40_LeasesIsolated ==
  [][(now' = now /\ last'.op \in {"registerRoutes", "deleteRoutes"}) =>
       \A v \in RegistryUsers :
         v # last'.userId =>
           /\ getRoutes(v)' = getRoutes(v)
           /\ getRoutesTTL(v)' = getRoutesTTL(v)
           /\ activity'[v] = activity[v]]_vars

\* u1 deleted its routes while u2 held a lease registered earlier
C40_Witness ==
  /\ last.op = "deleteRoutes"
  /\ last.userId = "u1"
  /\ last.error = "ok"
  /\ getRoutes("u1") = Null
  /\ getRoutes("u2") = Some(<<TunnelRoute>>)
  /\ getRoutesTTL("u2") = 1
  /\ activity["u2"] = 0
  /\ activity["u1"] = 1

====
